---------------------------- MODULE Spec2Model ----------------------------
(***************************************************************************)
(* A model of the dynamic-extension framework: the mutable buffer          *)
(* (MutableBuffer.h), the levelled shard structure (InternalLevel.h,       *)
(* ExtensionStructure.h, BSMPolicy.h), the shards (MemISAM.h) and the      *)
(* epoch coordination of DynamicExtension.h.                               *)
(*                                                                         *)
(* Every atomic access of the code (a load, a store, a fetch_add or a      *)
(* compare_exchange on a std::atomic) is one step of the thread that       *)
(* performs it; the thread-local computation between two accesses belongs  *)
(* to the step of the access that ends it.  A retry loop whose failed      *)
(* iterations change nothing is the step of its successful iteration.      *)
(*                                                                         *)
(* DynamicExtension.h calls a buffer view, an epoch object and a scheduler *)
(* whose sources are not part of the repository snapshot; those pieces     *)
(* follow the design document and are marked where they appear.            *)
(***************************************************************************)
EXTENDS Integers, Sequences, FiniteSets, TLC

(***************************************************************************)
(* Bounds of the model.                                                    *)
(***************************************************************************)
\* capacity handed to the MutableBuffer constructor
BufCap == 2
\* records are the integers 1..MaxRec; records 2k-1 and 2k have the same key
\* and differ in their value
MaxRec == 2
\* number of client threads
NThreads == 2
\* number of threads of the scheduler's pool that run reconstruction jobs
NWorkers == 1
\* inserts are started only while fewer than MaxEpochs epochs were created
MaxEpochs == 3
\* the same bound for the runs under the serial scheduler
MaxEpochsSerial == 4

Recs == 1..MaxRec
Threads == 1..NThreads
Workers == (NThreads + 1)..(NThreads + NWorkers)
Procs == Threads \cup Workers
\* the record a client thread inserts when several threads run
RecOf(t) == ((t - 1) % MaxRec) + 1
\* the key of a record
key_of(r) == (r + 1) \div 2

NULL == 0

VARIABLES
    \* ---- MutableBuffer ----
    m_tail,          \* std::atomic<int64_t> m_tail
    m_reccnt,        \* std::atomic<uint32_t> m_reccnt
    m_tombstonecnt,  \* std::atomic<size_t> m_tombstonecnt
    m_data,          \* Wrapped<R> m_data[m_cap]
    m_refcnt,        \* std::atomic<size_t> m_refcnt (views on the buffer)
    \* ---- threads ----
    pc,              \* position of each thread in the operation it executes
    loc,             \* the locals of each thread
    \* ---- DynamicExtension ----
    m_current_epoch,             \* std::atomic<epoch_ptr>
    m_previous_epoch,            \* std::atomic<epoch_ptr>
    m_next_epoch,                \* std::atomic<epoch_ptr>
    m_reconstruction_scheduled,  \* std::atomic<bool>
    m_epoch_cnt,                 \* std::atomic<size_t>
    epochs,          \* the heap of epoch objects, indexed by their address
    m_sched,         \* the scheduler: its kind and its queue of jobs
    D,               \* the delete policy the extension was instantiated with
    conf,            \* the layout policy L and the arguments of the constructor
    aborted,         \* "no", or why the process has terminated
    hist             \* history: what the calls made so far have returned

bufvars == <<m_tail, m_reccnt, m_tombstonecnt, m_data, m_refcnt>>
slotvars == <<m_current_epoch, m_previous_epoch, m_next_epoch>>
devars == <<m_current_epoch, m_previous_epoch, m_next_epoch,
            m_reconstruction_scheduled, m_epoch_cnt, epochs, m_sched, D,
            conf, aborted, hist>>
vars == <<m_tail, m_reccnt, m_tombstonecnt, m_data, m_refcnt, pc, loc,
          m_current_epoch, m_previous_epoch, m_next_epoch,
          m_reconstruction_scheduled, m_epoch_cnt, epochs, m_sched, D,
          conf, aborted, hist>>

(***************************************************************************)
(* Record envelope (RecordInterface.h, Wrapped<R>): a 32 bit header, bit 0 *)
(* the tombstone flag, bit 1 the delete tag, bits 2..31 the position.      *)
(***************************************************************************)
is_tombstone(h) == h % 2 = 1
is_deleted(h) == (h \div 2) % 2 = 1
\* a set_delete that writes the tombstone flag instead of the delete tag
set_delete_mut(h) == IF h % 2 = 1 THEN h ELSE h + 1
set_delete(h) == IF is_deleted(h) THEN h ELSE h + 2
set_tombstone(h) == IF is_tombstone(h) THEN h ELSE h + 1
header_pos(h) == h \div 4

\* a slot no append of the current fill has written yet
Unwritten == [rec |-> 0, header |-> 0, written |-> 0]

(***************************************************************************)
(* MutableBuffer                                                           *)
(***************************************************************************)
\* MutableBuffer(capacity, max_tombstone_cap) : m_cap(capacity),
\* m_tombstone_cap(capacity); the extension constructs its buffer as
\* new Buffer(buffer_low_watermark, buffer_high_watermark)
m_cap == conf.lwm
m_tombstone_cap_mut == conf.lwm - 1
m_tombstone_cap == conf.lwm

EmptyData == [i \in 0..(m_cap - 1) |-> Unwritten]

\* the comparison new_tail < m_cap of try_advance_tail is made between an
\* int64_t and a size_t: the int64_t is converted, a negative value compares
\* as a huge one
tail_below_cap_mut(new_tail) == new_tail <= m_cap
tail_below_cap(new_tail) == new_tail >= 0 /\ new_tail < m_cap

\* the check that opens append: tombstone && m_tombstonecnt + 1 > m_tombstone_cap
tombstone_full(ts) == ts /\ m_tombstonecnt + 1 > m_tombstone_cap

\* an epoch_ptr: the epoch's address and the count of its pins
NullPtr == [epoch |-> NULL, refcnt |-> 0]
\* ReconstructionArgs: the epoch to work on and the tasks of the policy
NoArgs == [epoch |-> NULL, merges |-> <<>>]
\* what a call remembers for the properties stated about it
NoSnap == [data |-> <<>>, structure |-> <<>>]
NoCall == [pins |-> 0, fulfilled |-> 0, released |-> <<>>, tagged |-> <<>>,
           floor |-> 0, must |-> {}, present |-> FALSE, snap |-> NoSnap]

\* The locals of a thread.  expect and alone are history of an append: what
\* the state the call started in promises (tail below the capacity and, for
\* a tombstone, tombstone count below the tombstone capacity), and whether no
\* other thread has touched the buffer since the call started.  pin is the
\* epoch the thread holds a pin on, view the tail of the buffer view it
\* holds (-1 when it holds none), flat the shard create_static_structure
\* has built.
IdleLoc == [op |-> "none", rec |-> 0, ts |-> FALSE, pos |-> -1, ret |-> -1,
            expect |-> FALSE, alone |-> FALSE,
            epoch |-> NULL, old |-> NullPtr, slot |-> "cur", cont |-> "idle",
            pin |-> NULL, view |-> -1, args |-> NoArgs, new_head |-> 0,
            result |-> {}, flat |-> <<>>, call |-> NoCall]

\* every other thread that is inside a call has been interfered with
Disturb(t, l) == [u \in Procs |-> IF u = t THEN l[u]
                                   ELSE [l[u] EXCEPT !.alone = FALSE]]

\* append, first step: the tombstone capacity check (line 63)
append_call(t, r, ts) ==
    /\ pc[t] = "idle"
    /\ LET l == [IdleLoc EXCEPT !.op = "append", !.rec = r, !.ts = ts,
                                !.expect = (m_tail < m_cap /\
                                     (ts => m_tombstonecnt < m_tombstone_cap)),
                                !.alone = TRUE]
       IN IF tombstone_full(ts)
          THEN /\ loc' = [loc EXCEPT ![t] = [l EXCEPT !.ret = 0]]
               /\ pc' = [pc EXCEPT ![t] = "done"]
          ELSE /\ loc' = [loc EXCEPT ![t] = l]
               /\ pc' = [pc EXCEPT ![t] = "advance"]
    /\ UNCHANGED <<bufvars, devars>>

\* try_advance_tail: m_tail.fetch_add(1) and the capacity test (lines 205-209)
try_advance_tail(t) ==
    /\ pc[t] = "advance"
    /\ m_tail' = m_tail + 1
    /\ IF tail_below_cap(m_tail)
       THEN /\ loc' = Disturb(t, [loc EXCEPT ![t].pos = m_tail])
            /\ pc' = [pc EXCEPT ![t] = "write"]
       ELSE /\ loc' = Disturb(t, loc)
            /\ pc' = [pc EXCEPT ![t] = "undo"]
    /\ UNCHANGED <<m_reccnt, m_tombstonecnt, m_data, m_refcnt, devars>>

\* try_advance_tail: m_tail.fetch_add(-1); return -1, and append returns 0
\* (lines 211-212, 66)
undo_advance_tail(t) ==
    /\ pc[t] = "undo"
    /\ m_tail' = m_tail - 1
    /\ loc' = Disturb(t, [loc EXCEPT ![t].ret = 0])
    /\ pc' = [pc EXCEPT ![t] = "done"]
    /\ UNCHANGED <<m_reccnt, m_tombstonecnt, m_data, m_refcnt, devars>>

\* m_data[pos] = wrec, the header holding the tombstone flag only (lines 68-73)
write_slot(t) ==
    /\ pc[t] = "write"
    /\ m_data' = [m_data EXCEPT ![loc[t].pos] =
                     [rec |-> loc[t].rec,
                      header |-> IF loc[t].ts THEN set_tombstone(0) ELSE 0,
                      written |-> 1]]
    /\ loc' = Disturb(t, loc)
    /\ pc' = [pc EXCEPT ![t] = "header"]
    /\ UNCHANGED <<m_tail, m_reccnt, m_tombstonecnt, m_refcnt, devars>>

\* m_data[pos].header |= (pos << 2) (line 74)
write_header(t) ==
    /\ pc[t] = "header"
    /\ m_data' = [m_data EXCEPT ![loc[t].pos] =
                     [@ EXCEPT !.header = (@ % 4) + 4 * loc[t].pos,
                               !.written = 2]]
    /\ loc' = Disturb(t, loc)
    /\ pc' = [pc EXCEPT ![t] = IF loc[t].ts THEN "tscount" ELSE "publish"]
    /\ UNCHANGED <<m_tail, m_reccnt, m_tombstonecnt, m_refcnt, devars>>

\* m_tombstonecnt.fetch_add(1) (lines 76-79)
count_tombstone(t) ==
    /\ pc[t] = "tscount"
    /\ m_tombstonecnt' = m_tombstonecnt + 1
    /\ loc' = Disturb(t, loc)
    /\ pc' = [pc EXCEPT ![t] = "publish"]
    /\ UNCHANGED <<m_tail, m_reccnt, m_data, m_refcnt, devars>>

\* m_reccnt.fetch_add(1); return 1 (lines 92-93)
publish(t) ==
    /\ pc[t] = "publish"
    /\ m_reccnt' = m_reccnt + 1
    /\ loc' = Disturb(t, [loc EXCEPT ![t].ret = 1])
    /\ pc' = [pc EXCEPT ![t] = "done"]
    /\ UNCHANGED <<m_tail, m_tombstonecnt, m_data, m_refcnt, devars>>

\* the caller of append takes the result
append_return(t) ==
    /\ pc[t] = "done"
    /\ loc[t].op = "append"
    /\ pc' = [pc EXCEPT ![t] = "idle"]
    /\ loc' = [loc EXCEPT ![t] = IdleLoc]
    /\ UNCHANGED <<bufvars, devars>>

\* get_record_count (lines 107-109)
get_record_count == m_reccnt

(***************************************************************************)
(* Shards.  A shard is the sorted sequence of the wrapped records it was   *)
(* built from (MemISAM.h: the constructors sort or merge the input, drop   *)
(* a record together with the tombstone that follows it, and drop the      *)
(* records that carry the delete tag).                                     *)
(***************************************************************************)
\* Wrapped::operator< : by record, the header breaking ties
wrapped_less(a, b) == a.rec < b.rec \/ (a.rec = b.rec /\ a.header < b.header)

RECURSIVE InsertSorted(_, _)
InsertSorted(x, s) ==
    IF s = <<>> THEN <<x>>
    ELSE IF wrapped_less(x, Head(s)) THEN <<x>> \o s
    ELSE <<Head(s)>> \o InsertSorted(x, Tail(s))

\* std::sort of the buffer, and the order in which the priority queue of the
\* merge constructor hands out the records of its runs
RECURSIVE SortWrapped(_)
SortWrapped(s) ==
    IF s = <<>> THEN <<>>
    ELSE InsertSorted(s[Len(s)], SortWrapped(SubSeq(s, 1, Len(s) - 1)))

\* a record is dropped together with the tombstone that follows it
cancels(s) ==
    /\ ~is_tombstone(s[1].header)
    /\ Len(s) >= 2
    /\ s[2].rec = s[1].rec
    /\ is_tombstone(s[2].header)

\* the copy loop of the shard constructors over the sorted input: what
\* arrives in the shard
RECURSIVE CancelAndCopy(_)
CancelAndCopy(s) ==
    IF s = <<>> THEN <<>>
    ELSE IF cancels(s) THEN CancelAndCopy(SubSeq(s, 3, Len(s)))
    ELSE IF is_deleted(s[1].header) THEN CancelAndCopy(Tail(s))
    ELSE <<[rec |-> s[1].rec, header |-> s[1].header % 2]>>
             \o CancelAndCopy(Tail(s))

\* the same loop: what it leaves behind in the buffer it walks over
\* (base->header &= 1 on every record it copies)
RECURSIVE MaskInPlace(_)
MaskInPlace(s) ==
    IF s = <<>> THEN <<>>
    ELSE IF cancels(s) THEN <<s[1], s[2]>> \o MaskInPlace(SubSeq(s, 3, Len(s)))
    ELSE IF is_deleted(s[1].header) THEN <<s[1]>> \o MaskInPlace(Tail(s))
    ELSE <<[s[1] EXCEPT !.header = @ % 2]>> \o MaskInPlace(Tail(s))

RECURSIVE Concat(_)
Concat(ss) == IF ss = <<>> THEN <<>> ELSE Head(ss) \o Concat(Tail(ss))

\* the slots [0, tail) of the buffer
Slots(data, tail) == [i \in 1..tail |-> data[i - 1]]

\* MemISAM(buffer): the shard built from the slots [0, tail)
shard_from_buffer(data, tail) == CancelAndCopy(SortWrapped(Slots(data, tail)))

\* MemISAM(buffer): the buffer after the constructor has sorted it in place
buffer_after_shard(data, tail) ==
    LET s == MaskInPlace(SortWrapped(Slots(data, tail)))
    IN [i \in DOMAIN data |-> IF i < tail THEN s[i + 1] ELSE data[i]]

\* MemISAM(runs, len): recs is the sequence of the contents of the runs
shard_from_shards(recs) == CancelAndCopy(SortWrapped(Concat(recs)))

\* get_lower_bound: the first index whose key is not below key, one past the
\* last index when there is none (indices from 1)
get_lower_bound(sh, key) ==
    IF \E i \in 1..Len(sh) : key_of(sh[i].rec) >= key
    THEN CHOOSE i \in 1..Len(sh) :
            /\ key_of(sh[i].rec) >= key
            /\ \A j \in 1..(i - 1) : key_of(sh[j].rec) < key
    ELSE Len(sh) + 1

\* point_lookup of a shard that holds at least one record: 0 for nullptr,
\* the index of the record found, or Len(sh) + 1 when the loop
\*     while (idx < m_reccnt && m_data[idx].rec < rec) ++idx;
\* ends with idx = m_reccnt and the comparison that follows reads the memory
\* behind the last record
point_lookup(sh, rec) ==
    LET lb == get_lower_bound(sh, key_of(rec))
    IN IF lb > Len(sh) THEN 0
       ELSE IF \E i \in lb..Len(sh) : ~(sh[i].rec < rec)
       THEN LET idx == CHOOSE i \in lb..Len(sh) :
                          /\ ~(sh[i].rec < rec)
                          /\ \A j \in lb..(i - 1) : sh[j].rec < rec
            IN IF sh[idx].rec = rec THEN idx ELSE 0
       ELSE Len(sh) + 1

shard_record_count(sh) == Len(sh)
shard_tombstone_count(sh) ==
    Cardinality({i \in 1..Len(sh) : is_tombstone(sh[i].header)})

RECURSIVE SumSeq(_)
SumSeq(s) == IF s = <<>> THEN 0 ELSE Head(s) + SumSeq(Tail(s))

(***************************************************************************)
(* InternalLevel and ExtensionStructure.  A level is its number and the    *)
(* sequence of its shards, a structure the sequence m_levels.              *)
(***************************************************************************)
NewLevel(level_no) == [m_level_no |-> level_no, m_shards |-> <<>>]

level_record_count(level) ==
    SumSeq([i \in 1..Len(level.m_shards) |-> shard_record_count(level.m_shards[i])])

level_tombstone_count(level) ==
    SumSeq([i \in 1..Len(level.m_shards) |-> shard_tombstone_count(level.m_shards[i])])

structure_record_count(s) == SumSeq([i \in 1..Len(s) |-> level_record_count(s[i])])

structure_tombstone_count(s) ==
    SumSeq([i \in 1..Len(s) |-> level_tombstone_count(s[i])])

\* InternalLevel::clone assigns new_level->m_shards[i] on a vector that has
\* no element.  For a level without shards the loop does nothing; for any
\* other level the assignment is outside the vector.  clone is the level
\* that is returned when the stray writes do not end the process: its vector
\* was never grown.
clone_in_bounds(level) == Len(level.m_shards) = 0
clone(level) == NewLevel(level.m_level_no)

\* ExtensionStructure::copy
copy_in_bounds(s) == \A i \in 1..Len(s) : clone_in_bounds(s[i])
copy(s) == [i \in 1..Len(s) |-> clone(s[i])]

Range(f) == {f[i] : i \in DOMAIN f}

\* every record held by a shard of the structure
structure_records(s) ==
    UNION {UNION {{sh[k].rec : k \in 1..Len(sh)} : sh \in Range(level.m_shards)}
              : level \in Range(s)}

\* How the reads outside an object end (InternalLevel::delete_record calls
\* point_lookup on every shard it visits):
\*   "benign" the stray read finds nothing equal to the record,
\*   "match"  the memory behind the last record compares equal to the record,
\*   "crash"  the process is terminated.
\* A shard without records has no index (build_internal_levels is skipped and
\* m_root is never assigned), so get_lower_bound starts from a stray pointer.
Outcomes == {"benign", "match", "crash"}

\* ExtensionStructure::tagged_delete over InternalLevel::delete_record:
\* levels in index order, the shards of a level in index order, the first
\* record point_lookup returns is tagged.  ret is 1, 0, or -1 for a crash;
\* hit names the record that was tagged.
RECURSIVE tagged_delete_from(_, _, _, _, _)
tagged_delete_from(s, rec, ub, li, si) ==
    IF li > Len(s) THEN [ret |-> 0, levels |-> s, hit |-> <<>>]
    ELSE IF si > Len(s[li].m_shards) THEN tagged_delete_from(s, rec, ub, li + 1, 1)
    ELSE LET sh == s[li].m_shards[si]
             idx == IF Len(sh) = 0 THEN 0 ELSE point_lookup(sh, rec)
             stray == Len(sh) = 0 \/ idx = Len(sh) + 1
         IN IF stray /\ ub = "crash" THEN [ret |-> -1, levels |-> s, hit |-> <<>>]
            ELSE IF idx = Len(sh) + 1 /\ Len(sh) > 0 /\ ub = "match"
                 THEN [ret |-> 1, levels |-> s, hit |-> <<>>]
            ELSE IF stray \/ idx = 0
                 THEN tagged_delete_from(s, rec, ub, li, si + 1)
            ELSE [ret |-> 1,
                  levels |-> [s EXCEPT ![li].m_shards[si][idx].header =
                                           set_delete(@)],
                  hit |-> <<<<"shard", li, si, idx>>>>]

tagged_delete(s, rec, ub) == tagged_delete_from(s, rec, ub, 1, 1)

\* MutableBuffer::delete_record restricted to the range of a view: the
\* lowest slot of [0, tail) that holds the record, -1 when there is none
buffer_find(data, tail, rec) ==
    IF \E i \in 0..(tail - 1) : data[i].rec = rec
    THEN CHOOSE i \in 0..(tail - 1) :
            data[i].rec = rec /\ \A j \in 0..(i - 1) : data[j].rec # rec
    ELSE -1

(***************************************************************************)
(* BSMPolicy (the layout whose branch of DynamicExtension::reconstruction  *)
(* works on ReconstructionTask values).  Level indices count from 0.       *)
(***************************************************************************)
all_shards_idx == -1
invalid_level_idx == -2

\* DynamicExtension(buffer_low_watermark, buffer_high_watermark, ...)
buffer_low_watermark == conf.lwm
buffer_high_watermark == conf.hwm

\* BSMPolicy::m_scale_factor and m_buffer_size
m_scale_factor == 2
m_buffer_size == buffer_high_watermark

\* BSMPolicy::capacity
capacity(level) == m_buffer_size * (m_scale_factor ^ (level + 1))

\* BSMPolicy::find_reconstruction_target
find_reconstruction_target(levels) ==
    IF \E i \in 0..(Len(levels) - 1) :
          level_record_count(levels[i + 1]) + m_buffer_size <= capacity(i)
    THEN CHOOSE i \in 0..(Len(levels) - 1) :
            /\ level_record_count(levels[i + 1]) + m_buffer_size <= capacity(i)
            /\ \A j \in 0..(i - 1) :
                  ~(level_record_count(levels[j + 1]) + m_buffer_size <= capacity(j))
    ELSE invalid_level_idx

\* the loop for (i = target_level; i > source_level; i--) of
\* get_reconstruction_tasks
RECURSIVE task_sources(_, _)
task_sources(levels, i) ==
    IF i > 0
    THEN (IF i < Len(levels)
          THEN <<[level_idx |-> i, shard_idx |-> all_shards_idx]>>
          ELSE <<>>) \o task_sources(levels, i - 1)
    ELSE <<>>

\* BSMPolicy::get_reconstruction_tasks: a vector of one task
get_reconstruction_tasks(levels) ==
    LET found == find_reconstruction_target(levels)
        target_level == IF found = invalid_level_idx THEN Len(levels) ELSE found
    IN <<[sources |-> task_sources(levels, target_level),
          target |-> target_level, type |-> "Merge"]>>

\* LevelingPolicy::find_reconstruction_target: the loop leaves target_level at
\* 0 when no level has room; incoming is the number of records that would
\* arrive at level i
RECURSIVE leveling_find_from(_, _, _)
leveling_find_from(levels, i, incoming) ==
    IF i >= Len(levels) THEN 0
    ELSE IF level_record_count(levels[i + 1]) + incoming < capacity(i) THEN i
    ELSE leveling_find_from(levels, i + 1, level_record_count(levels[i + 1]))

leveling_find_reconstruction_target(levels) ==
    leveling_find_from(levels, 0, m_buffer_size)

\* the loop for (i = target_level; i > source_level; i--) of
\* LevelingPolicy::get_reconstruction_tasks: add_reconstruction(i - 1, i, ...).
\* This overload of add_reconstruction builds the task from the source, the
\* target and the record count and leaves its type at the default, Invalid.
RECURSIVE leveling_tasks_from(_)
leveling_tasks_from(i) ==
    IF i > 0
    THEN <<[sources |-> <<[level_idx |-> i - 1, shard_idx |-> all_shards_idx]>>,
            target |-> i, type |-> "Invalid"]>> \o leveling_tasks_from(i - 1)
    ELSE <<>>

\* LevelingPolicy::get_reconstruction_tasks
leveling_get_reconstruction_tasks(levels) ==
    LET found == leveling_find_reconstruction_target(levels)
        target_level == IF found = invalid_level_idx THEN Len(levels) ELSE found
    IN leveling_tasks_from(target_level)

\* the tasks of the layout policy L of the extension
policy_reconstruction_tasks(levels) ==
    IF conf.layout = "LEVELING" THEN leveling_get_reconstruction_tasks(levels)
    ELSE get_reconstruction_tasks(levels)

\* BSMPolicy::get_flush_task
get_flush_task == [sources |-> <<[level_idx |-> -1, shard_idx |-> all_shards_idx]>>,
                   target |-> 0, type |-> "Merge"]

\* the assertions at the head of perform_reconstruction
reconstruction_asserts(s, task) ==
    \A k \in 1..Len(task.sources) :
        /\ task.sources[k].level_idx < Len(s)
        /\ task.sources[k].shard_idx >= -1

\* ExtensionStructure::perform_reconstruction for sources that name all the
\* shards of their level (the only sources the policy produces).  The branch
\* for a target beyond the last level reads m_levels.push_back(); it adds a
\* level and does not hand it the shard that was built.
perform_reconstruction(s, task) ==
    LET src == {task.sources[k].level_idx : k \in 1..Len(task.sources)}
        shards == Concat([k \in 1..Len(task.sources) |->
                              s[task.sources[k].level_idx + 1].m_shards])
        new_shard == shard_from_shards(shards)
        cut == [i \in 1..Len(s) |->
                   IF (i - 1) \in src THEN [s[i] EXCEPT !.m_shards = <<>>] ELSE s[i]]
    IN IF task.target < Len(s)
       THEN [cut EXCEPT ![task.target + 1].m_shards = Append(@, new_shard)]
       ELSE Append(cut, NewLevel(Len(s)))

\* the loop of the merge branch of perform_flush,
\*     for (i = 0; i < m_levels[0].size(); i++) { ... }
\* level0 is the shard vector of level 0, acc the vector shards, which is
\* declared outside the loop
RECURSIVE flush_loop(_, _, _, _)
flush_loop(level0, i, acc, buffer_shard) ==
    IF i < Len(level0)
    THEN LET acc2 == acc \o <<level0[i + 1], buffer_shard>>
         IN flush_loop(<<shard_from_shards(acc2)>>, i + 1, acc2, buffer_shard)
    ELSE level0

\* ExtensionStructure::perform_flush on a structure that has a level 0
perform_flush(s, task, buffer_shard) ==
    IF task.type = "Append"
    THEN [s EXCEPT ![1].m_shards = Append(@, buffer_shard)]
    ELSE [s EXCEPT ![1].m_shards = flush_loop(@, 0, <<>>, buffer_shard)]

(***************************************************************************)
(* DynamicExtension: the epoch slots.                                      *)
(***************************************************************************)
Go(p, q, l) ==
    /\ pc' = [pc EXCEPT ![p] = q]
    /\ loc' = [loc EXCEPT ![p] = l]

\* a failed assertion or a fatal signal ends the process
Abort(why) ==
    /\ aborted' = why
    /\ pc' = [q \in Procs |-> "aborted"]
    /\ UNCHANGED <<bufvars, loc, slotvars, m_reconstruction_scheduled,
                   m_epoch_cnt, epochs, m_sched, D, conf, hist>>

Slot(s) == IF s = "prev" THEN m_previous_epoch ELSE m_current_epoch

SetSlot(s, v) ==
    IF s = "prev"
    THEN m_previous_epoch' = v /\ UNCHANGED <<m_current_epoch, m_next_epoch>>
    ELSE m_current_epoch' = v /\ UNCHANGED <<m_previous_epoch, m_next_epoch>>

\* a call of get_active_epoch starts; the number of the newest epoch that
\* has been made current by then is kept for the properties
EnterPin(l, cont) == [l EXCEPT !.cont = cont, !.call.floor = hist.installed]

\* get_active_epoch: if (m_current_epoch.load().epoch == nullptr) (line 441)
current_is_null_mut(cur) == cur.epoch = NULL \/ m_previous_epoch.epoch # NULL
current_is_null(cur) == cur.epoch = NULL

get_active_epoch_check(p) ==
    /\ pc[p] = "gae_check"
    /\ Go(p, "gae_load",
          [loc[p] EXCEPT !.slot = IF current_is_null(m_current_epoch)
                                  THEN "prev" ELSE "cur"])
    /\ UNCHANGED <<bufvars, devars>>

\* old = m_previous_epoch, or old = m_current_epoch (lines 442, 449)
get_active_epoch_load(p) ==
    /\ pc[p] = "gae_load"
    /\ Go(p, "gae_cas", [loc[p] EXCEPT !.old = Slot(loc[p].slot)])
    /\ UNCHANGED <<bufvars, devars>>

\* old.epoch != nullptr && compare_exchange_strong(old, new_ptr)
\* (lines 443-446, 450-453); on success the epoch is returned (lines 458-460)
get_active_epoch_cas(p) ==
    /\ pc[p] = "gae_cas"
    /\ LET old == loc[p].old
       IN IF old.epoch # NULL /\ Slot(loc[p].slot) = old
          THEN /\ SetSlot(loc[p].slot, [old EXCEPT !.refcnt = @ + 1])
               /\ Go(p, loc[p].cont,
                     [loc[p] EXCEPT !.epoch = old.epoch, !.pin = old.epoch,
                                    !.call.pins = @ + 1])
          ELSE /\ Go(p, "gae_check", loc[p])
               /\ UNCHANGED slotvars
    /\ UNCHANGED <<bufvars, m_reconstruction_scheduled, m_epoch_cnt, epochs,
                   m_sched, D, conf, aborted, hist>>

\* end_job: if (m_previous_epoch.load().epoch == epoch) (line 750)
in_previous_mut(prev, epoch) == prev.epoch # NULL
in_previous(prev, epoch) == prev.epoch = epoch

end_job_check(p) ==
    /\ pc[p] = "ej_check"
    /\ Go(p, "ej_load",
          [loc[p] EXCEPT !.slot = IF in_previous(m_previous_epoch, loc[p].epoch)
                                  THEN "prev" ELSE "cur"])
    /\ UNCHANGED <<bufvars, devars>>

\* old = m_previous_epoch or old = m_current_epoch; the retry on a null
\* epoch; assert(old.refcnt > 0) (lines 751-760, 767-776)
end_job_load(p) ==
    /\ pc[p] = "ej_load"
    /\ LET old == Slot(loc[p].slot)
       IN IF old.epoch = NULL
          THEN Go(p, "ej_check", loc[p]) /\ UNCHANGED <<bufvars, devars>>
          ELSE IF old.refcnt = 0
          THEN Abort("assert refcnt > 0")
          ELSE Go(p, "ej_cas", [loc[p] EXCEPT !.old = old])
                 /\ UNCHANGED <<bufvars, devars>>

\* compare_exchange_strong(old, {old.epoch, old.refcnt - 1})
\* (lines 762-765, 778-781)
end_job_cas(p) ==
    /\ pc[p] = "ej_cas"
    /\ LET old == loc[p].old
       IN IF Slot(loc[p].slot) = old
          THEN /\ SetSlot(loc[p].slot, [old EXCEPT !.refcnt = @ - 1])
               /\ Go(p, loc[p].cont,
                     [loc[p] EXCEPT !.pin = NULL,
                                    !.call.released = Append(@, old.epoch)])
          ELSE /\ Go(p, "ej_check", loc[p])
               /\ UNCHANGED slotvars
    /\ UNCHANGED <<bufvars, m_reconstruction_scheduled, m_epoch_cnt, epochs,
                   m_sched, D, conf, aborted, hist>>

(***************************************************************************)
(* insert -> internal_append -> schedule_reconstruction -> create_new_epoch *)
(***************************************************************************)
\* MutableBuffer::is_at_low_watermark (design document: tail >= C_lo)
\* a test that asks for the tail to be beyond the low watermark
is_at_low_watermark_mut == m_tail > buffer_low_watermark
is_at_low_watermark == m_tail >= buffer_low_watermark

\* the number of epochs a run creates is capped
epoch_bound == IF m_sched.kind = "serial" THEN MaxEpochsSerial ELSE MaxEpochs

\* insert(rec) (line 133)
insert_call(t, r) ==
    /\ t \in Threads
    /\ pc[t] = "idle"
    /\ m_epoch_cnt < epoch_bound
    /\ Go(t, "ia_lwm", [IdleLoc EXCEPT !.op = "insert", !.rec = r])
    /\ UNCHANGED <<bufvars, devars>>

\* internal_append: if (m_buffer->is_at_low_watermark()) (line 703)
internal_append_watermark(t) ==
    /\ pc[t] = "ia_lwm"
    /\ Go(t, IF is_at_low_watermark THEN "ia_cas" ELSE "ia_append", loc[t])
    /\ UNCHANGED <<bufvars, devars>>

\* m_reconstruction_scheduled.compare_exchange_strong(old, true), old false
\* (lines 704-706)
flag_cas_succeeds_mut(old) == TRUE
flag_cas_succeeds(old) == m_reconstruction_scheduled = old

internal_append_flag(t) ==
    /\ pc[t] = "ia_cas"
    /\ IF flag_cas_succeeds(FALSE)
       THEN /\ m_reconstruction_scheduled' = TRUE
            /\ Go(t, "cne_assert", loc[t])
       ELSE /\ Go(t, "ia_append", loc[t])
            /\ UNCHANGED m_reconstruction_scheduled
    /\ UNCHANGED <<bufvars, slotvars, m_epoch_cnt, epochs, m_sched, D, conf, aborted,
                   hist>>

\* create_new_epoch: assert(m_next_epoch.load().epoch == nullptr); the call
\* of get_active_epoch follows (lines 505-506)
create_new_epoch_assert(t) ==
    /\ pc[t] = "cne_assert"
    /\ IF m_next_epoch.epoch # NULL
       THEN Abort("assert next is null")
       ELSE Go(t, "gae_check", EnterPin(loc[t], "cne_inc"))
              /\ UNCHANGED <<bufvars, devars>>

\* m_epoch_cnt.fetch_add(1) (line 508)
create_new_epoch_count(t) ==
    /\ pc[t] = "cne_inc"
    /\ m_epoch_cnt' = m_epoch_cnt + 1
    /\ Go(t, "cne_clone", loc[t])
    /\ UNCHANGED <<bufvars, slotvars, m_reconstruction_scheduled, epochs,
                   m_sched, D, conf, aborted, hist>>

\* m_next_epoch.store({current_epoch->clone(m_epoch_cnt.load()), 0});
\* end_job follows (lines 509-511).  Epoch::clone (design document) makes an
\* epoch of the given number that owns a copy() of the structure.
create_new_epoch_clone(t, ub) ==
    /\ pc[t] = "cne_clone"
    /\ LET s == epochs[loc[t].epoch].structure
       IN IF ~copy_in_bounds(s) /\ ub = "crash"
          THEN Abort("crash")
          ELSE /\ epochs' = Append(epochs, [number |-> m_epoch_cnt,
                                            structure |-> copy(s),
                                            freed |-> FALSE])
               /\ m_next_epoch' = [epoch |-> Len(epochs) + 1, refcnt |-> 0]
               /\ Go(t, "ej_check", [loc[t] EXCEPT !.cont = "sr_sched"])
               /\ UNCHANGED <<bufvars, m_current_epoch, m_previous_epoch,
                              m_reconstruction_scheduled, m_epoch_cnt, m_sched,
                              D, conf, aborted, hist>>

\* create_new_epoch returns m_next_epoch.load().epoch (line 513)
created_epoch_mut == m_current_epoch.epoch
created_epoch == m_next_epoch.epoch

\* schedule_reconstruction: the arguments of the job and schedule_job (lines
\* 676-686).  The serial scheduler runs the job inside schedule_job, the
\* pool scheduler queues it (design document).
schedule_reconstruction(t) ==
    /\ pc[t] = "sr_sched"
    /\ IF created_epoch = NULL
       THEN Abort("crash")
       ELSE LET args == [epoch |-> created_epoch,
                         merges |-> policy_reconstruction_tasks(
                                        epochs[created_epoch].structure)]
            IN /\ IF m_sched.kind = "serial"
                  THEN /\ Go(t, "r_merge", [loc[t] EXCEPT !.args = args])
                       /\ UNCHANGED m_sched
                  ELSE /\ Go(t, "ia_append", loc[t])
                       /\ m_sched' = [m_sched EXCEPT !.queue = Append(@, args)]
               /\ UNCHANGED <<bufvars, slotvars, m_reconstruction_scheduled,
                              m_epoch_cnt, epochs, D, conf, aborted, hist>>

\* internal_append: return m_buffer->append(rec, ts), its first step
\* (line 712; MutableBuffer.h line 63)
internal_append_append(t) ==
    /\ pc[t] = "ia_append"
    /\ IF tombstone_full(loc[t].ts)
       THEN Go(t, "done", [loc[t] EXCEPT !.ret = 0])
       ELSE Go(t, "advance", loc[t])
    /\ UNCHANGED <<bufvars, devars>>

(***************************************************************************)
(* The reconstruction job (DynamicExtension::reconstruction) and           *)
(* advance_epoch, retire_epoch.                                            *)
(***************************************************************************)
\* a thread of the pool takes the next job of the queue (design document)
worker_take(w) ==
    /\ w \in Workers
    /\ pc[w] = "idle"
    /\ m_sched.queue # <<>>
    /\ m_sched' = [m_sched EXCEPT !.queue = Tail(@)]
    /\ Go(w, "r_merge", [IdleLoc EXCEPT !.op = "recon",
                                        !.args = Head(m_sched.queue)])
    /\ UNCHANGED <<bufvars, slotvars, m_reconstruction_scheduled, m_epoch_cnt,
                   epochs, D, conf, aborted, hist>>

\* the tasks the job applies: args->merges[0] alone under BSM, every task in
\* the order of the vector under the other layouts (lines 563-572)
applied_merges(merges) ==
    IF conf.layout = "BSM" THEN SubSeq(merges, 1, IF Len(merges) > 0 THEN 1 ELSE 0)
    ELSE merges

\* the structure after the tasks have been applied one after the other; <<>>
\* stands for a failed assertion of perform_reconstruction
RECURSIVE apply_merges(_, _)
apply_merges(s, merges) ==
    IF merges = <<>> THEN <<s>>
    ELSE IF ~reconstruction_asserts(s, Head(merges)) THEN <<>>
    ELSE apply_merges(perform_reconstruction(s, Head(merges)), Tail(merges))

\* vers->reconstruction(...) for the tasks of the job (lines 561-572)
reconstruction_merge(p) ==
    /\ pc[p] = "r_merge"
    /\ LET e == loc[p].args.epoch
           done == apply_merges(epochs[e].structure, applied_merges(loc[p].args.merges))
       IN IF done = <<>>
          THEN Abort("assert source level")
          ELSE /\ epochs' = [epochs EXCEPT ![e].structure = done[1]]
               /\ Go(p, "r_view", loc[p])
               /\ UNCHANGED <<bufvars, slotvars, m_reconstruction_scheduled,
                              m_epoch_cnt, m_sched, D, conf, aborted, hist>>

\* auto buffer_view = args->epoch->get_buffer();
\* size_t new_head = buffer_view.get_tail(); (lines 580-581).  A view pins
\* the buffer and covers the slots below the count published when it was
\* taken (design document).
\* A view taken when more records are published than the buffer has slots
\* (an append that reserved its slot before truncate publishes after it) covers
\* memory behind m_data; the reads of it either fault or find no record.
view_in_bounds(view) == view <= m_cap
view_tail(view) == IF view_in_bounds(view) THEN view ELSE m_cap

reconstruction_view(p) ==
    /\ pc[p] = "r_view"
    /\ m_refcnt' = m_refcnt + 1
    /\ Go(p, "r_flush", [loc[p] EXCEPT !.view = m_reccnt, !.new_head = m_reccnt])
    /\ UNCHANGED <<m_tail, m_reccnt, m_tombstonecnt, m_data, devars>>

\* vers->flush_buffer(std::move(buffer_view)); the view is gone when the call
\* returns; args->result.set_value(true) (lines 588-592).  The flush is
\* perform_flush with the flush task of the policy; the shard constructor
\* sorts the records of the buffer where they lie.
reconstruction_flush(p) ==
    /\ pc[p] = "r_flush"
    /\ LET e == loc[p].args.epoch
       IN IF Len(epochs[e].structure) = 0
          THEN Abort("crash")
          ELSE \/ ~view_in_bounds(loc[p].view) /\ Abort("crash")
               \/ /\ epochs' = [epochs EXCEPT ![e].structure =
                               perform_flush(@, get_flush_task,
                                   shard_from_buffer(m_data,
                                                     view_tail(loc[p].view)))]
                  /\ m_data' = buffer_after_shard(m_data,
                                                  view_tail(loc[p].view))
                  /\ m_refcnt' = m_refcnt - 1
                  /\ Go(p, "a_retire_load", [loc[p] EXCEPT !.view = -1,
                                                           !.call.fulfilled = @ + 1])
                  /\ UNCHANGED <<m_tail, m_reccnt, m_tombstonecnt, slotvars,
                                 m_reconstruction_scheduled, m_epoch_cnt,
                                 m_sched, D, conf, aborted, hist>>

\* advance_epoch: retire_epoch(m_previous_epoch.load().epoch), and the test
\* for nullptr that opens retire_epoch (lines 465, 527-529)
advance_epoch_previous(p) ==
    /\ pc[p] = "a_retire_load"
    /\ IF m_previous_epoch.epoch = NULL
       THEN Go(p, "a_swap", loc[p])
       ELSE Go(p, "a_retire", [loc[p] EXCEPT !.epoch = m_previous_epoch.epoch])
    /\ UNCHANGED <<bufvars, devars>>

\* retire_epoch: old.epoch == epoch && old.refcnt == 0 (line 546)
retire_ready_mut(old, epoch) == old.epoch = epoch
retire_ready(old, epoch) == old.epoch = epoch /\ old.refcnt = 0

\* retire_epoch: the iteration of the loop that ends it, and delete epoch
\* (lines 533-554).  Under the serial scheduler the loop asserts that the
\* count is 0 (lines 541-544).
retire_epoch(p) ==
    /\ pc[p] = "a_retire"
    /\ LET old == m_previous_epoch
           epoch == loc[p].epoch
       IN IF m_sched.kind = "serial" /\ old.epoch = epoch /\ old.refcnt # 0
          THEN Abort("assert retired refcnt")
          ELSE /\ retire_ready(old, epoch)
               /\ m_previous_epoch' = NullPtr
               /\ epochs' = [epochs EXCEPT ![epoch] =
                                [@ EXCEPT !.freed = TRUE, !.structure = <<>>]]
               /\ Go(p, "a_swap", [loc[p] EXCEPT !.epoch = NULL])
               /\ UNCHANGED <<bufvars, m_current_epoch, m_next_epoch,
                              m_reconstruction_scheduled, m_epoch_cnt, m_sched,
                              D, conf, aborted, hist>>

\* do { cur = m_current_epoch; } while (!compare_exchange_strong(cur, tmp))
\* (lines 467-471)
advance_epoch_swap(p) ==
    /\ pc[p] = "a_swap"
    /\ m_current_epoch' = NullPtr
    /\ Go(p, "a_store_prev", [loc[p] EXCEPT !.old = m_current_epoch])
    /\ UNCHANGED <<bufvars, m_previous_epoch, m_next_epoch,
                   m_reconstruction_scheduled, m_epoch_cnt, epochs, m_sched, D, conf,
                   aborted, hist>>

\* m_previous_epoch.store(cur) (line 473)
advance_epoch_store_previous(p) ==
    /\ pc[p] = "a_store_prev"
    /\ m_previous_epoch' = loc[p].old
    /\ Go(p, "a_head", [loc[p] EXCEPT !.old = NullPtr])
    /\ UNCHANGED <<bufvars, m_current_epoch, m_next_epoch,
                   m_reconstruction_scheduled, m_epoch_cnt, epochs, m_sched, D, conf,
                   aborted, hist>>

\* MutableBuffer::truncate (lines 96-105): the counters return to 0, the
\* slots keep what they hold
truncate(data) == [i \in DOMAIN data |-> [data[i] EXCEPT !.written = 0]]

\* while (!m_next_epoch.load().epoch->advance_buffer_head(buffer_head))
\* (lines 481-483).  advance_buffer_head (design document) fails while a view
\* pins the buffer and otherwise truncates it.
advance_buffer_head(p) ==
    /\ pc[p] = "a_head"
    /\ IF m_next_epoch.epoch = NULL
       THEN Abort("crash")
       ELSE /\ m_refcnt = 0
            /\ m_tombstonecnt' = 0
            /\ m_reccnt' = 0
            /\ m_tail' = 0
            /\ m_data' = truncate(m_data)
            /\ pc' = [pc EXCEPT ![p] = "a_install"]
            /\ loc' = Disturb(p, loc)
            /\ UNCHANGED <<m_refcnt, devars>>

\* m_current_epoch.store(m_next_epoch) (line 485)
advance_epoch_install(p) ==
    /\ pc[p] = "a_install"
    /\ m_current_epoch' = m_next_epoch
    /\ hist' = [hist EXCEPT !.installed =
                   IF m_next_epoch.epoch # NULL
                      /\ epochs[m_next_epoch.epoch].number > @
                   THEN epochs[m_next_epoch.epoch].number ELSE @]
    /\ Go(p, "a_clear_next", loc[p])
    /\ UNCHANGED <<bufvars, m_previous_epoch, m_next_epoch,
                   m_reconstruction_scheduled, m_epoch_cnt, epochs, m_sched, D, conf,
                   aborted>>

\* m_next_epoch.store({nullptr, 0}) (line 486)
advance_epoch_clear_next(p) ==
    /\ pc[p] = "a_clear_next"
    /\ m_next_epoch' = NullPtr
    /\ Go(p, "a_notify", loc[p])
    /\ UNCHANGED <<bufvars, m_current_epoch, m_previous_epoch,
                   m_reconstruction_scheduled, m_epoch_cnt, epochs, m_sched, D, conf,
                   aborted, hist>>

\* m_epoch_cv.notify_all() under m_epoch_cv_lk (lines 489-491)
\* Every thread that is blocked in m_epoch_cv.wait is woken.
advance_epoch_notify(p) ==
    /\ pc[p] = "a_notify"
    /\ pc' = [q \in Procs |-> IF q = p THEN "r_clear"
                              ELSE IF pc[q] = "aw_blocked" THEN "aw_check"
                              ELSE pc[q]]
    /\ UNCHANGED <<loc, bufvars, devars>>

\* m_reconstruction_scheduled.store(false); delete args (lines 603-606).
\* A job of the pool ends here; a job the serial scheduler ran inside
\* schedule_job returns into internal_append.
reconstruction_clear(p) ==
    /\ pc[p] = "r_clear"
    /\ m_reconstruction_scheduled' = FALSE
    /\ IF loc[p].op = "recon"
       THEN Go(p, "idle", IdleLoc)
       ELSE Go(p, "ia_append", [loc[p] EXCEPT !.args = NoArgs, !.new_head = 0])
    /\ UNCHANGED <<bufvars, slotvars, m_epoch_cnt, epochs, m_sched, D, conf, aborted,
                   hist>>

(***************************************************************************)
(* get_record_count, query and erase.                                      *)
(***************************************************************************)
\* get_record_count: auto epoch = get_active_epoch() (line 218)
count_call(t) ==
    /\ t \in Threads
    /\ pc[t] = "idle"
    /\ Go(t, "gae_check", EnterPin([IdleLoc EXCEPT !.op = "count"], "cnt_read"))
    /\ UNCHANGED <<bufvars, devars>>

\* t = epoch->get_buffer().get_record_count()
\*     + epoch->get_structure()->get_record_count(); end_job follows
\* (lines 219-221)
count_read(t) ==
    /\ pc[t] = "cnt_read"
    /\ Go(t, "ej_check",
          [loc[t] EXCEPT !.ret = get_record_count
                            + structure_record_count(epochs[loc[t].epoch].structure),
                         !.cont = "done"])
    /\ UNCHANGED <<bufvars, devars>>

\* get_tombstone_count: auto epoch = get_active_epoch() (line 234)
tombstone_count_call(t) ==
    /\ t \in Threads
    /\ pc[t] = "idle"
    /\ Go(t, "gae_check",
          EnterPin([IdleLoc EXCEPT !.op = "tombstone_count"], "tcnt_read"))
    /\ UNCHANGED <<bufvars, devars>>

\* t = epoch->get_buffer().get_tombstone_count()
\*     + epoch->get_structure()->get_tombstone_count(); end_job follows
\* (lines 235-237)
tombstone_count_read(t) ==
    /\ pc[t] = "tcnt_read"
    /\ Go(t, "ej_check",
          [loc[t] EXCEPT !.ret = m_tombstonecnt
                            + structure_tombstone_count(epochs[loc[t].epoch].structure),
                         !.cont = "done"])
    /\ UNCHANGED <<bufvars, devars>>

\* query -> schedule_query -> schedule_job(async_query); the job starts with
\* get_active_epoch (lines 205-208, 689-700, 613).  The calling thread waits
\* for the future, so the steps of the job are kept with the caller.
query_call(t) ==
    /\ t \in Threads
    /\ pc[t] = "idle"
    /\ Go(t, "gae_check",
          EnterPin([IdleLoc EXCEPT !.op = "query", !.call.must = hist.accepted],
                   "q_view"))
    /\ UNCHANGED <<bufvars, devars>>

\* auto buffer = epoch->get_buffer() (line 615)
query_view(t) ==
    /\ pc[t] = "q_view"
    /\ m_refcnt' = m_refcnt + 1
    /\ Go(t, "q_exec", [loc[t] EXCEPT !.view = m_reccnt])
    /\ UNCHANGED <<m_tail, m_reccnt, m_tombstonecnt, m_data, devars>>

\* the records a query meets in the view it holds
view_records(data, tail) == {data[i].rec : i \in 0..(tail - 1)}

\* the local queries over the view and over every shard of the structure of
\* the epoch, and args->result_set.set_value(output); end_job follows (lines
\* 620-662)
query_execute(t) ==
    /\ pc[t] = "q_exec"
    /\ \/ ~view_in_bounds(loc[t].view) /\ Abort("crash")
       \/ /\ Go(t, "ej_check",
                [loc[t] EXCEPT
                    !.result = view_records(m_data, view_tail(loc[t].view)) \cup
                               structure_records(epochs[loc[t].epoch].structure),
                    !.call.fulfilled = @ + 1,
                    !.cont = "q_release"])
          /\ UNCHANGED <<bufvars, devars>>

\* the job returns and its view is destroyed (line 671)
query_release(t) ==
    /\ pc[t] = "q_release"
    /\ m_refcnt' = m_refcnt - 1
    /\ Go(t, "done", [loc[t] EXCEPT !.view = -1])
    /\ UNCHANGED <<m_tail, m_reccnt, m_tombstonecnt, m_data, devars>>

\* erase under TAGGING: auto view = m_buffer->get_buffer_view();
\* get_active_epoch follows (lines 168-174)
erase_call(t, r) ==
    /\ t \in Threads
    /\ pc[t] = "idle"
    /\ D = "TAGGING"
    /\ m_refcnt' = m_refcnt + 1
    /\ Go(t, "gae_check",
          EnterPin([IdleLoc EXCEPT !.op = "erase", !.rec = r, !.view = m_reccnt],
                   "e_tag"))
    /\ UNCHANGED <<m_tail, m_reccnt, m_tombstonecnt, m_data, devars>>

\* epoch->get_structure()->tagged_delete(rec); end_job follows on both
\* branches (lines 175-180)
erase_tagged_delete(t, ub) ==
    /\ pc[t] = "e_tag"
    /\ LET e == loc[t].epoch
           s == epochs[e].structure
           r == tagged_delete(s, loc[t].rec, ub)
       IN IF r.ret = -1
          THEN Abort("crash")
          ELSE /\ epochs' = [epochs EXCEPT ![e].structure = r.levels]
               /\ Go(t, "ej_check",
                     [loc[t] EXCEPT
                         !.ret = r.ret,
                         !.cont = "e_buf",
                         !.call.tagged = r.hit,
                         !.call.snap = [data |-> m_data, structure |-> s],
                         !.call.present =
                             \/ loc[t].rec \in structure_records(s)
                             \/ loc[t].rec \in view_records(m_data, loc[t].view)])
               /\ UNCHANGED <<bufvars, slotvars, m_reconstruction_scheduled,
                              m_epoch_cnt, m_sched, D, conf, aborted, hist>>

\* return 1 after a hit in the structure, else return
\* view.delete_record(rec); the view is destroyed on return (lines 176-187;
\* MutableBuffer.h lines 123-134)
erase_buffer(t) ==
    /\ pc[t] = "e_buf"
    /\ m_refcnt' = m_refcnt - 1
    /\ LET i == buffer_find(m_data, loc[t].view, loc[t].rec)
       IN IF loc[t].ret = 1 \/ i = -1
          THEN /\ Go(t, "done", [loc[t] EXCEPT !.view = -1])
               /\ UNCHANGED m_data
          ELSE /\ m_data' = [m_data EXCEPT ![i].header = set_delete(@)]
               /\ Go(t, "done", [loc[t] EXCEPT !.view = -1, !.ret = 1,
                                    !.call.tagged = <<<<"buffer", i, 0, 0>>>>])
    /\ UNCHANGED <<m_tail, m_reccnt, m_tombstonecnt, devars>>

\* await_next_epoch() (line 352)
await_call(t) ==
    /\ t \in Threads
    /\ pc[t] = "idle"
    /\ Go(t, "aw_check", [IdleLoc EXCEPT !.op = "await"])
    /\ UNCHANGED <<bufvars, devars>>

\* while (m_next_epoch.load().epoch != nullptr) (line 353): the load is made
\* without m_epoch_cv_lk
await_check(t) ==
    /\ pc[t] = "aw_check"
    /\ Go(t, IF m_next_epoch.epoch # NULL THEN "aw_lock"
             ELSE IF loc[t].op = "static" THEN "gae_check"
             ELSE IF loc[t].op = "destroy" THEN "d_shutdown"
             ELSE "done", loc[t])
    /\ UNCHANGED <<bufvars, devars>>

\* std::unique_lock<std::mutex> lk(m_epoch_cv_lk); m_epoch_cv.wait(lk); (lines
\* 354-355).  advance_epoch holds the mutex only around notify_all, so taking
\* the mutex and starting to wait is one step between two notifications; the
\* thread stays blocked until advance_epoch_notify wakes it, and then
\* evaluates the condition of the loop again.
await_wait(t) ==
    /\ pc[t] = "aw_lock"
    /\ Go(t, "aw_blocked", loc[t])
    /\ UNCHANGED <<bufvars, devars>>

\* erase without tagging: return internal_append(rec, true) (line 193)
erase_tombstone_call(t, r) ==
    /\ t \in Threads
    /\ pc[t] = "idle"
    /\ D = "TOMBSTONE"
    /\ m_epoch_cnt < epoch_bound
    /\ Go(t, "ia_lwm", [IdleLoc EXCEPT !.op = "erase", !.rec = r, !.ts = TRUE])
    /\ UNCHANGED <<bufvars, devars>>

\* InternalLevel::get_combined_shard of a level that holds a shard
get_combined_shard(level) == shard_from_shards(level.m_shards)

\* the loop for (int i = size - 1; i >= 0; i--) of create_static_structure
\* (lines 315-322): the combined shards of the levels that hold records, the
\* deepest level first; i counts the levels from 1
RECURSIVE static_level_shards(_, _)
static_level_shards(s, i) ==
    IF i = 0 THEN <<>>
    ELSE (IF level_record_count(s[i]) > 0
          THEN <<get_combined_shard(s[i])>> ELSE <<>>)
         \o static_level_shards(s, i - 1)

\* if (bv.get_record_count() > 0) (line 333)
static_takes_buffer_mut(reccnt) == reccnt > 1
static_takes_buffer(reccnt) == reccnt > 0

\* the shard create_static_structure returns for the structure s and the
\* view [0, tail) of the buffer (lines 311-338)
flattened(s, data, tail) ==
    shard_from_shards(static_level_shards(s, Len(s)) \o
                      (IF static_takes_buffer(tail)
                       THEN <<shard_from_buffer(data, tail)>> ELSE <<>>))

\* create_static_structure(true): await_next_epoch, then get_active_epoch
\* (lines 308-312)
static_call(t) ==
    /\ t \in Threads
    /\ pc[t] = "idle"
    /\ Go(t, "aw_check", EnterPin([IdleLoc EXCEPT !.op = "static"], "st_merge"))
    /\ UNCHANGED <<bufvars, devars>>

\* the shards of the levels, the shard of the buffer view, the merge of
\* them and the deletion of the intermediate shards; end_job follows (lines
\* 313-344).  The shard constructor sorts the records of the buffer where
\* they lie; the view lives inside the block of lines 330-336.
static_merge(t) ==
    /\ pc[t] = "st_merge"
    /\ \/ ~view_in_bounds(m_reccnt) /\ Abort("crash")
       \/ /\ view_in_bounds(m_reccnt)
          /\ LET s == epochs[loc[t].epoch].structure
             IN /\ Go(t, "ej_check",
                      [loc[t] EXCEPT
                          !.flat = flattened(s, m_data, m_reccnt),
                          !.view = m_reccnt,
                          !.call.snap = [data |-> m_data, structure |-> s],
                          !.cont = "done"])
                /\ m_data' = IF static_takes_buffer(m_reccnt)
                              THEN buffer_after_shard(m_data, m_reccnt)
                              ELSE m_data
          /\ UNCHANGED <<m_tail, m_reccnt, m_tombstonecnt, m_refcnt, devars>>

(***************************************************************************)
(* The range query (query/rangequery.h).  Indices of a shard count from 0  *)
(* here, as in the source; the shard itself is a sequence indexed from 1.  *)
(***************************************************************************)
\* local_preproc: start_idx = shard->get_lower_bound(parms->lower_bound),
\* stop_idx = shard->get_record_count() (lines 47-55)
local_preproc(sh, parms) ==
    [start_idx |-> get_lower_bound(sh, parms.lower_bound) - 1,
     stop_idx |-> shard_record_count(sh),
     global_parms |-> parms]

\* while (ptr < data + stop_idx && ptr->rec.key < lower_bound) ptr++
\* (lines 90-93)
RECURSIVE roll_forward(_, _, _)
roll_forward(sh, q, i) ==
    IF i < q.stop_idx /\ key_of(sh[i + 1].rec) < q.global_parms.lower_bound
    THEN roll_forward(sh, q, i + 1)
    ELSE i

\* ptr->rec.key <= upper_bound (line 96)
within_upper_mut(k, upper_bound) == k < upper_bound
within_upper(k, upper_bound) == k <= upper_bound

\* while (ptr < data + stop_idx && ptr->rec.key <= upper_bound)
\*     result.emplace_back(*ptr) (lines 95-99)
RECURSIVE collect(_, _, _)
collect(sh, q, i) ==
    IF i < q.stop_idx /\ within_upper(key_of(sh[i + 1].rec), q.global_parms.upper_bound)
    THEN <<sh[i + 1]>> \o collect(sh, q, i + 1)
    ELSE <<>>

\* local_query (lines 72-102)
local_query(sh, q) ==
    IF q.start_idx = shard_record_count(sh) THEN <<>>
    ELSE collect(sh, q, roll_forward(sh, q, q.start_idx))

\* local_query_buffer: the loop over the slots [0, tail) of the view (lines
\* 104-116)
RECURSIVE local_query_buffer(_, _, _, _)
local_query_buffer(data, tail, parms, i) ==
    IF i >= tail THEN <<>>
    ELSE (IF key_of(data[i].rec) >= parms.lower_bound
             /\ within_upper(key_of(data[i].rec), parms.upper_bound)
          THEN <<[rec |-> data[i].rec, header |-> data[i].header]>> ELSE <<>>)
         \o local_query_buffer(data, tail, parms, i + 1)

\* a range query on the shard of level 0: local_preproc, then local_query
range_query_shard(t, lo, hi) ==
    /\ t \in Threads
    /\ pc[t] = "idle"
    /\ Len(epochs[1].structure) > 0
    /\ Len(epochs[1].structure[1].m_shards) > 0
    /\ LET sh == epochs[1].structure[1].m_shards[1]
           parms == [lower_bound |-> lo, upper_bound |-> hi]
       IN /\ shard_record_count(sh) > 0
          /\ Go(t, "done", [IdleLoc EXCEPT !.op = "rq_shard", !.args = parms,
                                !.flat = local_query(sh, local_preproc(sh, parms))])
    /\ UNCHANGED <<bufvars, devars>>

\* a range query on a view of the buffer: local_preproc_buffer, then
\* local_query_buffer
range_query_buffer(t, lo, hi) ==
    /\ t \in Threads
    /\ pc[t] = "idle"
    /\ LET parms == [lower_bound |-> lo, upper_bound |-> hi]
       IN Go(t, "done", [IdleLoc EXCEPT !.op = "rq_buffer", !.args = parms,
                            !.flat = local_query_buffer(m_data, m_reccnt, parms, 0)])
    /\ UNCHANGED <<bufvars, devars>>

\* the caller takes the result of insert, erase, get_record_count, of the
\* future of a query or of the future of a compaction job
api_return(t) ==
    /\ pc[t] = "done"
    /\ loc[t].op \in {"insert", "erase", "count", "query", "tombstone_count",
                      "await", "static", "compact"}
    /\ hist' = IF loc[t].op = "insert" /\ loc[t].ret = 1
               THEN [hist EXCEPT !.accepted = @ \cup {loc[t].rec},
                                 !.ninserted = @ + 1]
               ELSE hist
    /\ Go(t, "idle", IdleLoc)
    /\ UNCHANGED <<bufvars, slotvars, m_reconstruction_scheduled, m_epoch_cnt,
                   epochs, m_sched, D, conf, aborted>>

(***************************************************************************)
(* Initial states and specifications.                                      *)
(***************************************************************************)
\* MutableBuffer (lines 40-51) and DynamicExtension (lines 81-97): an empty
\* buffer, epoch 0 with a structure without levels in m_current_epoch
InitConf(kind, policy, c) ==
    /\ conf = c
    /\ m_tail = 0
    /\ m_reccnt = 0
    /\ m_tombstonecnt = 0
    /\ m_data = EmptyData
    /\ m_refcnt = 0
    /\ pc = [t \in Procs |-> "idle"]
    /\ loc = [t \in Procs |-> IdleLoc]
    /\ epochs = <<[number |-> 0, structure |-> <<>>, freed |-> FALSE]>>
    /\ m_current_epoch = [epoch |-> 1, refcnt |-> 0]
    /\ m_previous_epoch = NullPtr
    /\ m_next_epoch = NullPtr
    /\ m_reconstruction_scheduled = FALSE
    /\ m_epoch_cnt = 0
    /\ m_sched = [kind |-> kind, queue |-> <<>>]
    /\ D = policy
    /\ aborted = "no"
    /\ hist = [installed |-> 0, accepted |-> {}, ninserted |-> 0]

\* the instance with the BSM layout and both watermarks BufCap
InitWith(kind, policy) ==
    InitConf(kind, policy, [layout |-> "BSM", lwm |-> BufCap, hwm |-> BufCap])

(***************************************************************************)
(* SpecAppend: threads appending to one buffer concurrently.               *)
(***************************************************************************)
InitAppend == InitWith("pool", "TOMBSTONE")

NextAppend ==
    \E t \in Threads :
        \/ \E ts \in BOOLEAN : append_call(t, RecOf(t), ts)
        \/ try_advance_tail(t)
        \/ undo_advance_tail(t)
        \/ write_slot(t)
        \/ write_header(t)
        \/ count_tombstone(t)
        \/ publish(t)
        \/ append_return(t)

SpecAppend == InitAppend /\ [][NextAppend]_vars

(***************************************************************************)
(* SpecSerial: one thread, the serial scheduler, tombstone deletes.        *)
(***************************************************************************)
InitSerial == InitWith("serial", "TOMBSTONE")

\* the steps inside the calls of a thread under the serial scheduler
SerialStep(t) ==
    \/ internal_append_watermark(t)
    \/ internal_append_flag(t)
    \/ create_new_epoch_assert(t)
    \/ get_active_epoch_check(t)
    \/ get_active_epoch_load(t)
    \/ get_active_epoch_cas(t)
    \/ create_new_epoch_count(t)
    \/ \E ub \in Outcomes : create_new_epoch_clone(t, ub)
    \/ end_job_check(t)
    \/ end_job_load(t)
    \/ end_job_cas(t)
    \/ schedule_reconstruction(t)
    \/ reconstruction_merge(t)
    \/ reconstruction_view(t)
    \/ reconstruction_flush(t)
    \/ advance_epoch_previous(t)
    \/ retire_epoch(t)
    \/ advance_epoch_swap(t)
    \/ advance_epoch_store_previous(t)
    \/ advance_buffer_head(t)
    \/ advance_epoch_install(t)
    \/ advance_epoch_clear_next(t)
    \/ advance_epoch_notify(t)
    \/ reconstruction_clear(t)
    \/ internal_append_append(t)
    \/ try_advance_tail(t)
    \/ write_slot(t)
    \/ write_header(t)
    \/ publish(t)
    \/ query_view(t)
    \/ query_execute(t)
    \/ query_release(t)
    \/ api_return(t)

NextSerial ==
    \E t \in {1} :
        \/ \E r \in Recs : insert_call(t, r)
        \/ count_call(t)
        \/ count_read(t)
        \/ tombstone_count_call(t)
        \/ tombstone_count_read(t)
        \/ query_call(t)
        \/ SerialStep(t)

SpecSerial == InitSerial /\ [][NextSerial]_vars

(***************************************************************************)
(* SpecTagging: one thread, the serial scheduler, tagged deletes.          *)
(***************************************************************************)
InitTagging == InitWith("serial", "TAGGING")

NextTagging ==
    \E t \in {1} :
        \/ \E r \in Recs : insert_call(t, r)
        \/ \E r \in Recs : erase_call(t, r)
        \/ \E ub \in Outcomes : erase_tagged_delete(t, ub)
        \/ erase_buffer(t)
        \/ count_call(t)
        \/ count_read(t)
        \/ tombstone_count_call(t)
        \/ tombstone_count_read(t)
        \/ query_call(t)
        \/ SerialStep(t)

SpecTagging == InitTagging /\ [][NextTagging]_vars

(***************************************************************************)
(* SpecParallel: client threads and the pool scheduler, tombstone deletes. *)
(***************************************************************************)
InitParallel == InitWith("pool", "TOMBSTONE")

\* the workload: thread 1 inserts, the other threads query
Writers == {1}
Readers == Threads \ Writers

NextParallel ==
    \E p \in Procs :
        \/ \E t \in Writers \cap {p} : insert_call(t, RecOf(t))
        \/ \E t \in Readers \cap {p} : query_call(t)
        \/ worker_take(p)
        \/ undo_advance_tail(p)
        \/ SerialStep(p)

SpecParallel == InitParallel /\ [][NextParallel]_vars

\* no other thread is inside a call, no job is queued or running
Quiescent(t) ==
    /\ \A u \in Procs \ {t} : pc[u] = "idle"
    /\ m_sched.queue = <<>>
    /\ ~m_reconstruction_scheduled

(* C1: no accepted record is lost or counted twice: after any sequence of  *)
(* insert calls (tombstone policy, no erase) interleaved with completed    *)
(* flushes and reconstructions, get_record_count() called at a quiescent   *)
(* point returns the number of insert calls that returned 1                *)
C1_CountEqualsAcceptedInserts ==
    \A t \in Threads :
        (pc[t] = "done" /\ loc[t].op = "count" /\ Quiescent(t))
            => loc[t].ret = hist.ninserted

C3_PublishedSlotsWritten ==
    \A i \in 0..(m_cap - 1) : i < get_record_count => m_data[i].written = 2

(* C7: if insert(rec) has returned 1 before a query job pins its epoch and *)
(* takes its buffer view, then rec is among the records the query reads,   *)
(* in its buffer view or in a shard of the structure of the pinned epoch   *)
C7_AcceptedInsertVisibleToQuery ==
    \A t \in Threads :
        (pc[t] = "done" /\ loc[t].op = "query")
            => loc[t].call.must \subseteq loc[t].result

(* C4: an epoch that get_active_epoch has returned to a thread is not       *)
(* deleted before the matching end_job of that thread has completed        *)
C4_PinnedEpochNotFreed ==
    \A p \in Procs : loc[p].pin # NULL => ~epochs[loc[p].pin].freed

\* retire_epoch waits on an epoch that a thread holds a pin on
C4_Witness ==
    \E w \in Procs, t \in Procs :
        /\ pc[w] = "a_retire"
        /\ loc[t].pin = loc[w].epoch
        /\ m_previous_epoch = [epoch |-> loc[w].epoch, refcnt |-> 1]

\* the steps of a thread that has won the flag and has not yet handed the
\* job to the scheduler, and the steps of a reconstruction job
PinPcs == {"gae_check", "gae_load", "gae_cas", "ej_check", "ej_load", "ej_cas"}
SubmitPcs == {"cne_assert", "cne_inc", "cne_clone", "sr_sched"}
JobPcs == {"r_merge", "r_view", "r_flush", "a_retire_load", "a_retire",
           "a_swap", "a_store_prev", "a_head", "a_install", "a_clear_next",
           "a_notify", "r_clear"}
Submitting(p) ==
    \/ pc[p] \in SubmitPcs
    \/ pc[p] \in PinPcs /\ loc[p].cont \in {"cne_inc", "sr_sched"}
InFlight ==
    Cardinality({p \in Procs : Submitting(p) \/ pc[p] \in JobPcs})
        + Len(m_sched.queue)

(* C5: from the successful CAS of the reconstruction-scheduled flag until  *)
(* the job clears the flag at most one reconstruction job is submitted,    *)
(* queued or running, the flag is set all that time, and the assertion     *)
(* next == null of create_new_epoch never fails                            *)
C5_OneReconstructionInFlight ==
    /\ InFlight <= 1
    /\ InFlight = 1 => m_reconstruction_scheduled
    /\ aborted # "assert next is null"

\* an insert loses the CAS on the flag while a job is running
C5_Witness ==
    \E t \in Threads, w \in Procs :
        /\ pc[t] = "ia_cas"
        /\ pc[w] \in JobPcs
        /\ m_reconstruction_scheduled

\* the records of every shard of every level, in place
shard_set(s) ==
    [li \in 1..Len(s) |->
        [si \in 1..Len(s[li].m_shards) |->
            [k \in 1..Len(s[li].m_shards[si]) |-> s[li].m_shards[si][k].rec]]]

\* an epoch that has been stored into current and is not deleted
Pinnable(e) == ~epochs[e].freed /\ epochs[e].number <= hist.installed

(* C6: no step changes the levels or the shards of an epoch that has been  *)
(* installed in current or previous: the merge and the flush of a          *)
(* reconstruction job change the structure of the next epoch only          *)
C6_InstalledStructureFixed ==
    [][\A e \in 1..Len(epochs) :
          (Pinnable(e) /\ ~epochs'[e].freed)
              => shard_set(epochs'[e].structure) = shard_set(epochs[e].structure)]_vars

\* a job has flushed records into the next epoch while a query holds a pin
\* on an installed epoch
C6_Witness ==
    \E w \in Procs, t \in Threads :
        /\ pc[w] = "a_retire_load"
        /\ loc[t].op = "query" /\ loc[t].pin # NULL
        /\ Pinnable(loc[t].pin)
        /\ ~Pinnable(loc[w].args.epoch)
        /\ structure_record_count(epochs[loc[w].args.epoch].structure) > 0

C9_QueryPinsFulfilsReleasesOnce ==
    \A t \in Threads :
        loc[t].op = "query" =>
            /\ loc[t].call.pins <= 1
            /\ loc[t].call.fulfilled <= 1
            /\ Len(loc[t].call.released) > 0 => loc[t].call.fulfilled = 1
            /\ pc[t] = "done" =>
                  /\ loc[t].call.pins = 1
                  /\ loc[t].call.fulfilled = 1
                  /\ loc[t].call.released = <<loc[t].epoch>>

\* a query has completed whose epoch had moved to previous before its
\* end_job
C9_Witness ==
    \E t \in Threads :
        /\ pc[t] = "done" /\ loc[t].op = "query"
        /\ loc[t].slot = "prev"
        /\ loc[t].call.released = <<loc[t].epoch>>

\* the record an erase has tagged: it equals rec, and the headers differ
\* from those the call found in the delete bit of that record only
TaggedOnly(t, h) ==
    LET c == loc[t].call
        s == epochs[loc[t].epoch].structure
    IN IF h[1] = "buffer"
       THEN /\ c.snap.data[h[2]].rec = loc[t].rec
            /\ is_deleted(m_data[h[2]].header)
            /\ m_data = [c.snap.data EXCEPT ![h[2]].header = set_delete(@)]
            /\ s = c.snap.structure
       ELSE /\ c.snap.structure[h[2]].m_shards[h[3]][h[4]].rec = loc[t].rec
            /\ is_deleted(s[h[2]].m_shards[h[3]][h[4]].header)
            /\ s = [c.snap.structure EXCEPT
                       ![h[2]].m_shards[h[3]][h[4]].header = set_delete(@)]
            /\ m_data = c.snap.data

(* C10: under TAGGING erase(rec) returns 1 exactly when a record equal to  *)
(* rec is in the structure of the pinned epoch or in the buffer view of    *)
(* the call, and then exactly one such record has its delete tag set; when *)
(* there is none it returns 0 and changes no record header                 *)
C10_EraseTagsExactlyWhenPresent ==
    \A t \in Threads :
        (pc[t] = "done" /\ loc[t].op = "erase") =>
            /\ (loc[t].ret = 1) <=> loc[t].call.present
            /\ loc[t].ret = 1 =>
                  /\ Len(loc[t].call.tagged) = 1
                  /\ TaggedOnly(t, loc[t].call.tagged[1])
            /\ loc[t].ret = 0 =>
                  /\ m_data = loc[t].call.snap.data
                  /\ epochs[loc[t].epoch].structure = loc[t].call.snap.structure


(***************************************************************************)
(* Deletes by tagging: the counts of the extension.                        *)
(***************************************************************************)
\* what get_record_count() returns in the current state: the records of the
\* buffer and of the structure of the current epoch
extension_record_count ==
    get_record_count +
    (IF m_current_epoch.epoch = NULL THEN 0
     ELSE structure_record_count(epochs[m_current_epoch.epoch].structure))

\* C11: under TAGGING no step of an erase call changes what
\* get_record_count() returns, and every get_tombstone_count() call returns 0,
\* whatever inserts, erases and flushes came before
C11_EraseKeepsCountNoTombstones ==
    [][\A t \in Threads :
          /\ (D = "TAGGING" /\ (loc[t].op = "erase" \/ loc'[t].op = "erase"))
                => extension_record_count' = extension_record_count
          /\ (D = "TAGGING" /\ pc'[t] = "done" /\ loc'[t].op = "tombstone_count")
                => loc'[t].ret = 0]_vars

\* an erase has tagged a record of a shard, and a record count was flushed
C11_Witness ==
    /\ D = "TAGGING"
    /\ pc[1] = "done" /\ loc[1].op = "erase" /\ loc[1].ret = 1
    /\ loc[1].call.tagged # <<>>
    /\ loc[1].call.tagged[1][1] = "shard"
    /\ hist.installed >= 2

(***************************************************************************)
(* SpecWatermarks: the serial run for every pair of watermarks             *)
(* 0 < C_lo <= C_hi <= BufCap.                                             *)
(***************************************************************************)
Watermarks == {w \in (1..BufCap) \X (1..BufCap) : w[1] <= w[2]}

InitWatermarks ==
    \E w \in Watermarks :
        InitConf("serial", "TOMBSTONE",
                 [layout |-> "BSM", lwm |-> w[1], hwm |-> w[2]])

SpecWatermarks == InitWatermarks /\ [][NextSerial]_vars

\* C16: under the serial scheduler with C_lo <= C_hi, an insert reaches its
\* append only with room below the high watermark (the reconstruction it
\* triggered at the low watermark has run and emptied the buffer), and no
\* insert returns 0
C16_SerialInsertNeverRejected ==
    \A t \in Threads :
        (m_sched.kind = "serial" /\ conf.lwm <= conf.hwm /\ loc[t].op = "insert") =>
            /\ pc[t] = "ia_append" =>
                  m_tail < buffer_high_watermark /\ ~m_reconstruction_scheduled
            /\ pc[t] = "done" => loc[t].ret = 1

\* an insert that found the buffer at the low watermark has run the
\* reconstruction itself and has then been accepted
C16_Witness ==
    /\ m_sched.kind = "serial" /\ conf.lwm < conf.hwm
    /\ pc[1] = "done" /\ loc[1].op = "insert" /\ loc[1].ret = 1
    /\ loc[1].call.pins >= 1
    /\ hist.installed >= 1

(***************************************************************************)
(* SpecAwait: thread 1 inserts, the other threads call await_next_epoch,   *)
(* the reconstructions run on the pool.                                    *)
(***************************************************************************)
NextAwait ==
    \E p \in Procs :
        \/ \E t \in Writers \cap {p} : insert_call(t, RecOf(t))
        \/ \E t \in Readers \cap {p} : await_call(t)
        \/ await_check(p)
        \/ await_wait(p)
        \/ worker_take(p)
        \/ undo_advance_tail(p)
        \/ internal_append_watermark(p)
        \/ internal_append_flag(p)
        \/ create_new_epoch_assert(p)
        \/ get_active_epoch_check(p)
        \/ get_active_epoch_load(p)
        \/ get_active_epoch_cas(p)
        \/ create_new_epoch_count(p)
        \/ \E ub \in Outcomes : create_new_epoch_clone(p, ub)
        \/ end_job_check(p)
        \/ end_job_load(p)
        \/ end_job_cas(p)
        \/ schedule_reconstruction(p)
        \/ reconstruction_merge(p)
        \/ reconstruction_view(p)
        \/ reconstruction_flush(p)
        \/ advance_epoch_previous(p)
        \/ retire_epoch(p)
        \/ advance_epoch_swap(p)
        \/ advance_epoch_store_previous(p)
        \/ advance_buffer_head(p)
        \/ advance_epoch_install(p)
        \/ advance_epoch_clear_next(p)
        \/ advance_epoch_notify(p)
        \/ reconstruction_clear(p)
        \/ internal_append_append(p)
        \/ try_advance_tail(p)
        \/ write_slot(p)
        \/ write_header(p)
        \/ publish(p)
        \/ api_return(p)

SpecAwait == InitParallel /\ [][NextAwait]_vars

\* C13: a thread that is blocked in await_next_epoch is still owed a wake-up:
\* either the epoch transition it waits for has not stored null to
\* m_next_epoch yet, or the notify_all that follows the store is still to
\* come
C13_BlockedWaiterIsNotified ==
    \A t \in Threads :
        pc[t] = "aw_blocked" =>
            \/ m_next_epoch.epoch # NULL
            \/ \E p \in Procs : pc[p] = "a_notify"

(***************************************************************************)
(* SpecFaults: the serial run in which a step of a job can fail.  A step   *)
(* fails by throwing (the allocation inside a shard constructor, a local   *)
(* query).  No function between the job and the public call has a handler, *)
(* so the exception unwinds async_query or reconstruction, schedule_job    *)
(* and the public call, and reaches the caller.  ret = -2 records that the *)
(* call was left by an exception.                                          *)
(***************************************************************************)
Thrown == -2
\* queries fail only while at most MaxFaults pins are held on the current epoch
MaxFaults == 1

\* a step of async_query between get_active_epoch and set_value throws
\* (lines 615-659); unwinding destroys the buffer view and skips
\* result_set.set_value and end_job
query_fail(t) ==
    /\ pc[t] = "q_exec"
    /\ m_sched.kind = "serial"
    /\ m_current_epoch.refcnt <= MaxFaults
    /\ m_refcnt' = m_refcnt - 1
    /\ Go(t, "done", [loc[t] EXCEPT !.ret = Thrown, !.view = -1])
    /\ UNCHANGED <<m_tail, m_reccnt, m_tombstonecnt, m_data, devars>>

\* a shard constructor throws inside vers->reconstruction or inside
\* vers->flush_buffer (lines 563-589); unwinding destroys the buffer view if
\* it was taken and skips result.set_value, advance_epoch,
\* m_reconstruction_scheduled.store(false) and delete args
reconstruction_fail(p) ==
    /\ pc[p] \in {"r_merge", "r_flush"}
    /\ m_sched.kind = "serial"
    /\ m_refcnt' = IF pc[p] = "r_flush" THEN m_refcnt - 1 ELSE m_refcnt
    /\ Go(p, "done", [loc[p] EXCEPT !.ret = Thrown, !.view = -1])
    /\ UNCHANGED <<m_tail, m_reccnt, m_tombstonecnt, m_data, devars>>

NextFaults ==
    \E t \in {1} :
        \/ \E r \in Recs : insert_call(t, r)
        \/ count_call(t)
        \/ count_read(t)
        \/ query_call(t)
        \/ query_fail(t)
        \/ reconstruction_fail(t)
        \/ SerialStep(t)

SpecFaults == InitSerial /\ [][NextFaults]_vars

\* C14: a query one of whose steps failed has delivered the failure through
\* its future and has released the pin it took on its epoch
C14_FailedQueryDeliversAndUnpins ==
    \A t \in Threads :
        (loc[t].op = "query" /\ pc[t] = "done" /\ loc[t].ret = Thrown) =>
            /\ loc[t].call.fulfilled = 1
            /\ loc[t].pin = NULL
            /\ loc[t].call.released = <<loc[t].epoch>>

\* C15: when the reconstruction job that an insert ran has failed while it
\* built a shard, the failure was delivered through the promise of the job,
\* the epoch was not advanced (the epoch of the job is still the next one)
\* and the flag m_reconstruction_scheduled is false again
C15_FailedReconstructionClearsFlag ==
    \A t \in Threads :
        (loc[t].op = "insert" /\ pc[t] = "done" /\ loc[t].ret = Thrown) =>
            /\ loc[t].call.fulfilled = 1
            /\ m_next_epoch.epoch = loc[t].args.epoch
            /\ ~m_reconstruction_scheduled

(***************************************************************************)
(* SpecRetry: thread 1 inserts and calls insert again after every return,  *)
(* the reconstructions run on the pool; every thread that can take a step  *)
(* eventually takes one.                                                   *)
(***************************************************************************)
RetryStep(p) ==
    \/ \E t \in Writers \cap {p} : insert_call(t, RecOf(t))
    \/ worker_take(p)
    \/ undo_advance_tail(p)
    \/ internal_append_watermark(p)
    \/ internal_append_flag(p)
    \/ create_new_epoch_assert(p)
    \/ get_active_epoch_check(p)
    \/ get_active_epoch_load(p)
    \/ get_active_epoch_cas(p)
    \/ create_new_epoch_count(p)
    \/ \E ub \in Outcomes : create_new_epoch_clone(p, ub)
    \/ end_job_check(p)
    \/ end_job_load(p)
    \/ end_job_cas(p)
    \/ schedule_reconstruction(p)
    \/ reconstruction_merge(p)
    \/ reconstruction_view(p)
    \/ reconstruction_flush(p)
    \/ advance_epoch_previous(p)
    \/ retire_epoch(p)
    \/ advance_epoch_swap(p)
    \/ advance_epoch_store_previous(p)
    \/ advance_buffer_head(p)
    \/ advance_epoch_install(p)
    \/ advance_epoch_clear_next(p)
    \/ advance_epoch_notify(p)
    \/ reconstruction_clear(p)
    \/ internal_append_append(p)
    \/ try_advance_tail(p)
    \/ write_slot(p)
    \/ write_header(p)
    \/ publish(p)
    \/ api_return(p)

NextRetry == \E p \in Procs : RetryStep(p)

SpecRetry ==
    InitParallel /\ [][NextRetry]_vars /\ \A p \in Procs : WF_vars(RetryStep(p))

Rejected(t) == pc[t] = "done" /\ loc[t].op = "insert" /\ loc[t].ret = 0
Accepted(t) == pc[t] = "done" /\ loc[t].op = "insert" /\ loc[t].ret = 1

\* the run has used up the epochs it may create
EpochsUsedUp == m_epoch_cnt >= epoch_bound

\* C12: under the pool scheduler with fair scheduling, a thread whose insert
\* returned 0 and that keeps retrying eventually has an insert return 1
\* (unless the process has been terminated, or the run has used up its
\* epochs)
C12_RejectedInsertEventuallyAccepted ==
    \A t \in Writers :
        Rejected(t) ~> (Accepted(t) \/ EpochsUsedUp \/ aborted # "no")

(***************************************************************************)
(* SpecStatic: the serial run with inserts, tombstone deletes, queries and *)
(* create_static_structure(true).                                          *)
(***************************************************************************)
NextStatic ==
    \E t \in {1} :
        \/ \E r \in Recs : insert_call(t, r)
        \/ \E r \in Recs : erase_tombstone_call(t, r)
        \/ query_call(t)
        \/ static_call(t)
        \/ await_check(t)
        \/ static_merge(t)
        \/ count_tombstone(t)
        \/ SerialStep(t)

SpecStatic == InitSerial /\ [][NextStatic]_vars

\* the records and tombstones the extension held when the static structure
\* was built: those of every shard of every level and those of the buffer
static_input(t) ==
    Concat([i \in 1..Len(loc[t].call.snap.structure) |->
               Concat(loc[t].call.snap.structure[i].m_shards)])
    \o Slots(loc[t].call.snap.data, loc[t].view)

\* how often the record r occurs in seq, as a tombstone or as a live record
Occurs(seq, r, ts) ==
    Cardinality({i \in 1..Len(seq) : seq[i].rec = r /\ is_tombstone(seq[i].header) = ts})

\* the pairs of a record and its tombstone that are missing from the shard
CancelledPairs(t, r) ==
    Occurs(static_input(t), r, FALSE) - Occurs(loc[t].flat, r, FALSE)

Layouts == {"BSM", "LEVELING"}

\* jobs are started only while the structure holds fewer records than this
MaxStructRecs == 12

\* the shards a buffer view of 1..m_cap live records is turned into
BufferShards ==
    {SortWrapped([i \in 1..n |-> [rec |-> f[i], header |-> 0]]) :
        n \in 1..BufCap, f \in [1..BufCap -> Recs]}

InitStructure ==
    \E l \in Layouts :
        InitConf("serial", "TOMBSTONE",
                 [layout |-> l, lwm |-> BufCap, hwm |-> BufCap])

\* the body of a reconstruction job on the structure (DynamicExtension.h
\* lines 561-589): the merges of the policy, then flush_buffer
structure_job(buffer_shard) ==
    /\ aborted = "no"
    /\ LET s == epochs[1].structure
           done == apply_merges(s, applied_merges(policy_reconstruction_tasks(s)))
       IN /\ structure_record_count(s) < MaxStructRecs
          /\ IF done = <<>> THEN Abort("assert source level")
             ELSE IF Len(done[1]) = 0 THEN Abort("crash")
             ELSE /\ epochs' = [epochs EXCEPT ![1].structure =
                                   perform_flush(done[1], get_flush_task, buffer_shard)]
                  /\ UNCHANGED <<bufvars, pc, loc, slotvars,
                                 m_reconstruction_scheduled, m_epoch_cnt, m_sched,
                                 D, conf, aborted, hist>>

NextStructure == \E b \in BufferShards : structure_job(b)

SpecStructure == InitStructure /\ [][NextStructure]_vars

\* C18: after every completed reconstruction job every level i of the
\* structure holds at most capacity(i) = C_hi * S^(i+1) records
C18_LevelsWithinCapacity ==
    LET s == epochs[1].structure
    IN \A i \in 0..(Len(s) - 1) : level_record_count(s[i + 1]) <= capacity(i)

(***************************************************************************)
(* SpecScenario: C_lo = 4, C_hi = 8, S = 2, tombstone deletes, the serial  *)
(* scheduler; the keys 1..10 are inserted in order, under each layout.     *)
(***************************************************************************)
ScenarioLow == 4
ScenarioHigh == 8
ScenarioKeys == 10

\* the record that carries the key k
RecOfKey(k) == 2 * k - 1

InitScenario ==
    \E l \in Layouts :
        InitConf("serial", "TOMBSTONE",
                 [layout |-> l, lwm |-> ScenarioLow, hwm |-> ScenarioHigh])

\* the next key is inserted once the insert of the key before it was accepted
scenario_insert(t) ==
    /\ hist.ninserted < ScenarioKeys
    /\ insert_call(t, RecOfKey(hist.ninserted + 1))

NextScenario ==
    \E t \in {1} :
        \/ scenario_insert(t)
        \/ count_call(t)
        \/ count_read(t)
        \/ query_call(t)
        \/ SerialStep(t)

SpecScenario == InitScenario /\ [][NextScenario]_vars

\* the records of a shard
shard_recs(sh) == [i \in 1..Len(sh) |-> sh[i].rec]

\* C19: with C_lo = 4, C_hi = 8, S = 2, leveling, tombstone deletes and the
\* serial scheduler the inserts of the keys 1..10 all complete, and after the
\* tenth level 1 holds one shard with the keys 1..8, level 0 is empty, the
\* buffer holds the keys 9 and 10, and get_record_count() is 10
C19_LevelingScenario ==
    conf = [layout |-> "LEVELING", lwm |-> ScenarioLow, hwm |-> ScenarioHigh] =>
        /\ aborted = "no"
        /\ (hist.ninserted = ScenarioKeys /\ pc[1] = "idle") =>
              LET s == epochs[m_current_epoch.epoch].structure
              IN /\ Len(s) = 2
                 /\ s[1].m_shards = <<>>
                 /\ Len(s[2].m_shards) = 1
                 /\ shard_recs(s[2].m_shards[1]) = [k \in 1..8 |-> RecOfKey(k)]
                 /\ view_records(m_data, m_reccnt) = {RecOfKey(9), RecOfKey(10)}
                 /\ extension_record_count = ScenarioKeys

(***************************************************************************)
(* SpecRange: range queries on a buffer that holds records with distinct   *)
(* keys, and on the shard built from a view of that buffer.                *)
(***************************************************************************)
\* the keys are 1..MaxKey, the bounds of a query lie in 0..MaxKey + 1
MaxKey == 3
Keys == 1..MaxKey
Bounds == 0..(MaxKey + 1)

\* the sequences of records in which no key occurs twice
DistinctKeySeqs ==
    UNION {{f \in [1..n -> 1..(2 * MaxKey)] :
               \A i, j \in 1..n : i # j => key_of(f[i]) # key_of(f[j])} : n \in 0..MaxKey}

\* the buffer after the records of f were appended to it in order
filled(f) ==
    [i \in 0..(MaxKey - 1) |->
        IF i < Len(f) THEN [rec |-> f[i + 1], header |-> 4 * i, written |-> 2]
        ELSE Unwritten]

InitRange ==
    \E f \in DistinctKeySeqs :
        /\ conf = [layout |-> "BSM", lwm |-> MaxKey, hwm |-> MaxKey]
        /\ m_tail = Len(f)
        /\ m_reccnt = Len(f)
        /\ m_tombstonecnt = 0
        /\ m_data = filled(f)
        /\ m_refcnt = 0
        /\ pc = [t \in Procs |-> "idle"]
        /\ loc = [t \in Procs |-> IdleLoc]
        /\ epochs = <<[number |-> 0,
                       structure |-> <<[m_level_no |-> 0,
                                        m_shards |-> <<shard_from_buffer(filled(f), Len(f))>>]>>,
                       freed |-> FALSE]>>
        /\ m_current_epoch = [epoch |-> 1, refcnt |-> 0]
        /\ m_previous_epoch = NullPtr
        /\ m_next_epoch = NullPtr
        /\ m_reconstruction_scheduled = FALSE
        /\ m_epoch_cnt = 0
        /\ m_sched = [kind |-> "serial", queue |-> <<>>]
        /\ D = "TOMBSTONE"
        /\ aborted = "no"
        /\ hist = [installed |-> 0, accepted |-> {}, ninserted |-> 0]

NextRange ==
    \E t \in {1} :
        \/ \E lo, hi \in Bounds : range_query_shard(t, lo, hi)
        \/ \E lo, hi \in Bounds : range_query_buffer(t, lo, hi)

SpecRange == InitRange /\ [][NextRange]_vars

\* the records of the buffer
buffer_recs == {m_data[i].rec : i \in 0..(m_reccnt - 1)}

pq_entries(results, pos) == {i \in 1..Len(results) : pos[i] <= Len(results[i])}

\* the order of two entries of the queue
pq_less(results, pos, i, j) ==
    \/ wrapped_less(results[i][pos[i]], results[j][pos[j]])
    \/ /\ ~wrapped_less(results[j][pos[j]], results[i][pos[i]])
       /\ i < j

\* pq.peek() over the entries S
pq_peek(results, pos, S) ==
    CHOOSE i \in S : \A j \in S \ {i} : pq_less(results, pos, i, j)

\* now is a live record and next is a tombstone of the same record (lines
\* 149-150)
collide(now, next) ==
    ~is_tombstone(now.header) /\ now.rec = next.rec /\ is_tombstone(next.header)

\* while (pq.size()) ... (lines 145-169)
RECURSIVE combine_loop(_, _, _)
combine_loop(results, pos, output) ==
    LET S == pq_entries(results, pos)
    IN IF S = {} THEN output
       ELSE LET now == pq_peek(results, pos, S)
                rest == S \ {now}
                next == pq_peek(results, pos, rest)
                data == results[now][pos[now]]
            IN IF rest # {} /\ collide(data, results[next][pos[next]])
               THEN combine_loop(results,
                                 [pos EXCEPT ![now] = @ + 1, ![next] = @ + 1],
                                 output)
               ELSE combine_loop(results, [pos EXCEPT ![now] = @ + 1],
                                 IF is_tombstone(data.header) THEN output
                                 ELSE Append(output, data.rec))

\* combine(local_results, parms, output)
combine(results) == combine_loop(results, [i \in 1..Len(results) |-> 1], <<>>)

\* query_results of async_query: the result of the buffer query first,
\* then those of the shards in the order of get_local_queries
\* (DynamicExtension.h lines 632-640)
query_results(s, data, tail, parms) ==
    <<local_query_buffer(data, tail, parms, 0)>>
    \o Concat([i \in 1..Len(s) |->
                 [j \in 1..Len(s[i].m_shards) |->
                     local_query(s[i].m_shards[j],
                                 local_preproc(s[i].m_shards[j], parms))]])

\* a range query over the buffer and the shards of the structure: the local
\* queries and combine
range_query(t, lo, hi) ==
    /\ t \in Threads
    /\ pc[t] = "idle"
    /\ LET parms == [lower_bound |-> lo, upper_bound |-> hi]
       IN Go(t, "done",
             [IdleLoc EXCEPT !.op = "rq", !.args = parms,
                             !.flat = combine(query_results(epochs[1].structure,
                                                            m_data, m_reccnt, parms))])
    /\ UNCHANGED <<bufvars, devars>>

(***************************************************************************)
(* SpecCombine: range queries over a buffer of live records and            *)
(* tombstones and a level 0 of up to MaxCombineShards shards, each built   *)
(* from a buffer.                                                          *)
(***************************************************************************)
\* two records with different keys
CombineRecs == {1, 3}
MaxCombineLen == 2
MaxCombineShards == 2

\* what can be appended: a record, or its tombstone
Appends == [rec : CombineRecs, ts : BOOLEAN]

AppendSeqs == UNION {[1..n -> Appends] : n \in 0..MaxCombineLen}

\* the buffer after the appends of f
appended(f) ==
    [i \in 0..(MaxCombineLen - 1) |->
        IF i < Len(f)
        THEN [rec |-> f[i + 1].rec,
              header |-> 4 * i + (IF f[i + 1].ts THEN 1 ELSE 0), written |-> 2]
        ELSE Unwritten]

\* the shards that can be built from a buffer that is not empty
CombineShards == {shard_from_buffer(appended(f), Len(f)) : f \in AppendSeqs \ {<<>>}}

InitCombine ==
    \E f \in AppendSeqs :
    \E shards \in UNION {[1..n -> CombineShards] : n \in 0..MaxCombineShards} :
        /\ conf = [layout |-> "BSM", lwm |-> MaxCombineLen, hwm |-> MaxCombineLen]
        /\ m_tail = Len(f)
        /\ m_reccnt = Len(f)
        /\ m_tombstonecnt = Cardinality({i \in 1..Len(f) : f[i].ts})
        /\ m_data = appended(f)
        /\ m_refcnt = 0
        /\ pc = [t \in Procs |-> "idle"]
        /\ loc = [t \in Procs |-> IdleLoc]
        /\ epochs = <<[number |-> 0,
                       structure |-> <<[m_level_no |-> 0, m_shards |-> shards]>>,
                       freed |-> FALSE]>>
        /\ m_current_epoch = [epoch |-> 1, refcnt |-> 0]
        /\ m_previous_epoch = NullPtr
        /\ m_next_epoch = NullPtr
        /\ m_reconstruction_scheduled = FALSE
        /\ m_epoch_cnt = 0
        /\ m_sched = [kind |-> "serial", queue |-> <<>>]
        /\ D = "TOMBSTONE"
        /\ aborted = "no"
        /\ hist = [installed |-> 0, accepted |-> {}, ninserted |-> 0]

NextCombine == \E t \in {1} : \E lo, hi \in 0..3 : range_query(t, lo, hi)

SpecCombine == InitCombine /\ [][NextCombine]_vars

\* the local results a finished range query combined
combined_inputs(t) ==
    Concat(query_results(epochs[1].structure, m_data, m_reccnt, loc[t].args))

\* how often the record r occurs in the output
OccursOut(out, r) == Cardinality({i \in 1..Len(out) : out[i] = r})

\* the buffer holds the record r and, appended after it, its tombstone
ErasedInBuffer(r) ==
    \E i, j \in 0..(m_reccnt - 1) :
        /\ i < j
        /\ m_data[i].rec = r /\ ~is_tombstone(m_data[i].header)
        /\ m_data[j].rec = r /\ is_tombstone(m_data[j].header)

\* C21: the output of combine holds no tombstone; a record in the range that
\* is met once alive and once as a tombstone (the tombstone appended to the
\* buffer after the record) is not in the output, and a record that is met
\* with no tombstone is in the output as often as it is met
C21_CombineCancelsPairs ==
    \A t \in Threads :
        (pc[t] = "done" /\ loc[t].op = "rq") =>
            \A r \in CombineRecs :
                LET in == combined_inputs(t)
                IN /\ Occurs(in, r, TRUE) = 0 =>
                          OccursOut(loc[t].flat, r) = Occurs(in, r, FALSE)
                   /\ (/\ Occurs(in, r, FALSE) = 1
                       /\ Occurs(in, r, TRUE) = 1
                       /\ ErasedInBuffer(r)) =>
                          OccursOut(loc[t].flat, r) = 0

(***************************************************************************)
(* end_job and the epoch slots                                             *)
(***************************************************************************)
\* SpecCounts: thread 1 inserts, the other threads call get_record_count, the
\* reconstructions run on the pool
NextCounts ==
    \E p \in Procs :
        \/ \E t \in Readers \cap {p} : count_call(t)
        \/ count_read(p)
        \/ RetryStep(p)

SpecCounts == InitParallel /\ [][NextCounts]_vars

\* end_job has decremented a refcount in this step
Unpinned(p) ==
    /\ pc[p] = "ej_cas"
    /\ Len(loc'[p].call.released) = Len(loc[p].call.released) + 1

\* C22: end_job(e) decrements the refcount stored with e and with no other
\* epoch, and its assertion refcnt > 0 never fails
C22_EndJobDecrementsItsEpoch ==
    /\ [](aborted # "assert refcnt > 0")
    /\ [][\A p \in Procs :
             Unpinned(p) =>
                 loc'[p].call.released[Len(loc'[p].call.released)] = loc[p].epoch]_vars

\* C23: in every state, the states between the steps of advance_epoch and
\* of create_new_epoch included, no epoch is held by two of the slots
\* m_previous_epoch, m_current_epoch and m_next_epoch
C23_EpochInOneSlot ==
    /\ ~(m_previous_epoch.epoch # NULL /\ m_previous_epoch.epoch = m_current_epoch.epoch)
    /\ ~(m_previous_epoch.epoch # NULL /\ m_previous_epoch.epoch = m_next_epoch.epoch)
    /\ ~(m_current_epoch.epoch # NULL /\ m_current_epoch.epoch = m_next_epoch.epoch)

(***************************************************************************)
(* ~DynamicExtension (DynamicExtension.h, lines 105-119)                   *)
(***************************************************************************)
\* the destructor starts, when no other client thread is inside a call:
\* await_next_epoch() (line 108)
destructor_call(t) ==
    /\ t \in Threads
    /\ \A u \in Threads : pc[u] = "idle"
    /\ Go(t, "aw_check", [IdleLoc EXCEPT !.op = "destroy"])
    /\ UNCHANGED <<bufvars, devars>>

\* m_sched.shutdown() (line 111): no job is accepted any more
destructor_shutdown(t) ==
    /\ pc[t] = "d_shutdown"
    /\ m_sched' = [m_sched EXCEPT !.queue = <<>>]
    /\ Go(t, "d_delete", loc[t])
    /\ UNCHANGED <<bufvars, slotvars, m_reconstruction_scheduled, m_epoch_cnt,
                   epochs, D, conf, aborted, hist>>

\* the slots whose epoch the destructor deletes (lines 114-116)
destructor_slots_mut == <<m_next_epoch, m_current_epoch>>
destructor_slots == <<m_next_epoch, m_current_epoch, m_previous_epoch>>

\* the epochs these deletes are applied to (delete of nullptr does nothing)
held(slots) == {slots[i].epoch : i \in 1..Len(slots)} \ {NULL}

\* one of the deletes is applied to an epoch that has been deleted before
deleted_twice(slots) ==
    \/ \E e \in held(slots) : epochs[e].freed
    \/ \E i, j \in 1..Len(slots) :
          i < j /\ slots[i].epoch # NULL /\ slots[i].epoch = slots[j].epoch

\* delete m_next_epoch.load().epoch; delete m_current_epoch.load().epoch;
\* delete m_previous_epoch.load().epoch; (lines 114-116)
destructor_delete(t) ==
    /\ pc[t] = "d_delete"
    /\ IF deleted_twice(destructor_slots)
       THEN Abort("double delete")
       ELSE /\ epochs' = [e \in DOMAIN epochs |->
                            IF e \in held(destructor_slots)
                            THEN [epochs[e] EXCEPT !.freed = TRUE, !.structure = <<>>]
                            ELSE epochs[e]]
            /\ Go(t, "destroyed", [loc[t] EXCEPT !.result = held(destructor_slots)])
            /\ UNCHANGED <<bufvars, slotvars, m_reconstruction_scheduled,
                           m_epoch_cnt, m_sched, D, conf, aborted, hist>>

\* SpecDestroy: thread 1 inserts and then destroys the framework, the
\* reconstructions run on the pool
NextDestroy ==
    \E p \in Procs :
        \/ \E t \in Writers \cap {p} : destructor_call(t)
        \/ await_check(p)
        \/ await_wait(p)
        \/ destructor_shutdown(p)
        \/ destructor_delete(p)
        \/ RetryStep(p)

SpecDestroy == InitParallel /\ [][NextDestroy]_vars

\* the destructor has returned
Destroyed == \E t \in Threads : pc[t] = "destroyed"

\* the epochs the destructor deleted itself
DeletedByDestructor == UNION {loc[t].result : t \in {u \in Threads : pc[u] = "destroyed"}}

\* C24 as claimed: every epoch that was created is deleted exactly once and
\* by retire_epoch: none is deleted twice, and when the destructor has
\* returned none is left and the destructor has deleted none itself
C24_DeletedOnceByRetire ==
    /\ aborted # "double delete"
    /\ Destroyed =>
          /\ \A e \in DOMAIN epochs : epochs[e].freed
          /\ DeletedByDestructor = {}

\* C24 amended: every epoch that was created is deleted exactly once, by
\* retire_epoch or, when it is still held by a slot at the end, by the
\* destructor: none is deleted twice, and when the destructor has returned
\* none is left
C24_DeletedOnce ==
    /\ aborted # "double delete"
    /\ Destroyed => \A e \in DOMAIN epochs : epochs[e].freed

\* the destructor has returned after two epoch transitions: retire_epoch
\* has deleted one epoch, the destructor two
C24_Witness ==
    /\ Destroyed
    /\ Len(epochs) = 3
    /\ Cardinality(DeletedByDestructor) = 2
    /\ \A e \in DOMAIN epochs : epochs[e].freed

\* the thread w is inside the loop of retire_epoch, waiting for the refcount
\* of the epoch it retires
Retiring(w) ==
    pc[w] = "a_retire" /\ m_previous_epoch.epoch = loc[w].epoch

\* the jobs that have pinned the epoch e and have not yet returned from
\* end_job
Pinning(e) == {p \in Procs : loc[p].pin = e}

\* C25: while a thread is in retire_epoch, the refcount stored with the
\* epoch in m_previous_epoch counts jobs that still pin that epoch, so that
\* their calls of end_job bring it to 0 and the epoch is retired
C25_RetireCanFinish ==
    \A w \in Procs :
        Retiring(w) =>
            m_previous_epoch.refcnt <= Cardinality(Pinning(m_previous_epoch.epoch))

(***************************************************************************)
(* get_active_epoch                                                        *)
(***************************************************************************)
\* the CAS of get_active_epoch succeeds in this step: the call returns
\* loc'[p].epoch
Pinned(p) ==
    /\ pc[p] = "gae_cas"
    /\ loc'[p].call.pins = loc[p].call.pins + 1

\* C26: when get_active_epoch returns, it returns the epoch in
\* m_current_epoch if that slot is not null and the epoch in
\* m_previous_epoch otherwise; the epoch is not null and not the epoch stored
\* in m_next_epoch, and the CAS has raised the refcount stored with it by
\* one, to at least 1
C26_ActiveEpochReturned ==
    [][\A p \in Procs :
          Pinned(p) =>
              /\ loc'[p].epoch # NULL
              /\ loc'[p].epoch = IF m_current_epoch.epoch # NULL
                                 THEN m_current_epoch.epoch
                                 ELSE m_previous_epoch.epoch
              /\ loc'[p].epoch # m_next_epoch.epoch
              /\ \/ /\ m_current_epoch'.epoch = loc'[p].epoch
                    /\ m_current_epoch'.refcnt = m_current_epoch.refcnt + 1
                    /\ m_current_epoch'.refcnt >= 1
                 \/ /\ m_previous_epoch'.epoch = loc'[p].epoch
                    /\ m_previous_epoch'.refcnt = m_previous_epoch.refcnt + 1
                    /\ m_previous_epoch'.refcnt >= 1]_vars

(***************************************************************************)
(* SpecPins: the client threads call get_record_count over and over; every *)
(* thread that can take a step eventually takes one.                       *)
(***************************************************************************)
PinStep(p) ==
    \/ count_call(p)
    \/ get_active_epoch_check(p)
    \/ get_active_epoch_load(p)
    \/ get_active_epoch_cas(p)
    \/ count_read(p)
    \/ end_job_check(p)
    \/ end_job_load(p)
    \/ end_job_cas(p)
    \/ api_return(p)

NextPins == \E p \in Procs : PinStep(p)

SpecPins == InitParallel /\ [][NextPins]_vars /\ \A p \in Procs : WF_vars(PinStep(p))

\* the thread t is inside the loop of get_active_epoch
InPin(t) == pc[t] \in {"gae_check", "gae_load", "gae_cas"}

\* C27: under fair scheduling a thread that has entered get_active_epoch
\* eventually returns from it
C27_PinReturns == \A t \in Threads : InPin(t) ~> ~InPin(t)

(***************************************************************************)
(* SpecReconstruct: perform_reconstruction applied to a structure of up    *)
(* to MaxReconLevels levels with up to MaxReconShards shards each, for     *)
(* every task whose sources name all the shards of existing levels.        *)
(***************************************************************************)
MaxReconLevels == 2
MaxReconShards == 2

\* shards: a record, another record, a tombstone of the first
ReconShards ==
    {<<[rec |-> 1, header |-> 0]>>, <<[rec |-> 3, header |-> 0]>>,
     <<[rec |-> 1, header |-> 1]>>}

ReconStructures ==
    UNION {{[i \in 1..n |-> [m_level_no |-> i - 1, m_shards |-> f[i]]] :
               f \in [1..n -> UNION {[1..k -> ReconShards] : k \in 0..MaxReconShards}]}
              : n \in 1..MaxReconLevels}

\* tasks: the sources are levels in descending order, the target is a level
\* or the level after the last
ReconTasks ==
    {[sources |-> [k \in 1..Len(q) |-> [level_idx |-> q[k], shard_idx |-> all_shards_idx]],
      target |-> t, type |-> "Merge"] :
        q \in UNION {{g \in [1..n -> 0..(MaxReconLevels - 1)] :
                         \A i, j \in 1..n : i < j => g[i] > g[j]} : n \in 1..MaxReconLevels},
        t \in 0..MaxReconLevels}

InitReconstruct ==
    \E s \in ReconStructures :
        /\ conf = [layout |-> "BSM", lwm |-> BufCap, hwm |-> BufCap]
        /\ m_tail = 0
        /\ m_reccnt = 0
        /\ m_tombstonecnt = 0
        /\ m_data = EmptyData
        /\ m_refcnt = 0
        /\ pc = [t \in Procs |-> "idle"]
        /\ loc = [t \in Procs |-> IdleLoc]
        /\ epochs = <<[number |-> 0, structure |-> s, freed |-> FALSE]>>
        /\ m_current_epoch = [epoch |-> 1, refcnt |-> 0]
        /\ m_previous_epoch = NullPtr
        /\ m_next_epoch = NullPtr
        /\ m_reconstruction_scheduled = FALSE
        /\ m_epoch_cnt = 0
        /\ m_sched = [kind |-> "serial", queue |-> <<>>]
        /\ D = "TOMBSTONE"
        /\ aborted = "no"
        /\ hist = [installed |-> 0, accepted |-> {}, ninserted |-> 0]

\* vers->perform_reconstruction(task) on the structure of epoch 1; the
\* structure before the call is kept for the properties
perform_reconstruction_call(t, task) ==
    /\ t \in Threads
    /\ pc[t] = "idle"
    /\ reconstruction_asserts(epochs[1].structure, task)
    /\ task.target <= Len(epochs[1].structure)
    /\ epochs' = [epochs EXCEPT ![1].structure = perform_reconstruction(@, task)]
    /\ Go(t, "done", [IdleLoc EXCEPT !.op = "perform_reconstruction",
                                     !.args = task,
                                     !.call.snap.structure = epochs[1].structure])
    /\ UNCHANGED <<bufvars, slotvars, m_reconstruction_scheduled, m_epoch_cnt,
                   m_sched, D, conf, aborted, hist>>

NextReconstruct ==
    \E t \in {1} : \E task \in ReconTasks : perform_reconstruction_call(t, task)

SpecReconstruct == InitReconstruct /\ [][NextReconstruct]_vars

\* the records of the shards of the levels ls of the structure s
records_of(s, ls) ==
    Concat([i \in 1..Len(s) |->
               IF (i - 1) \in ls THEN Concat(s[i].m_shards) ELSE <<>>])

\* live copies less tombstones of the record r in seq
Net(seq, r) == Occurs(seq, r, FALSE) - Occurs(seq, r, TRUE)

\* the source levels of a task
SourceLevels(task) == {task.sources[k].level_idx : k \in 1..Len(task.sources)}

\* C28: after perform_reconstruction(task) the source levels have lost their
\* shards, the levels that are neither source nor target are unchanged, and
\* the target level (a new level when task.target is the number of levels)
\* has gained one shard, which holds the records of the source shards less
\* the pairs of a record and its tombstone; so of every record the structure
\* holds as many live copies more than tombstones as before
C28_ReconstructionMovesShards ==
    \A t \in Threads :
        (pc[t] = "done" /\ loc[t].op = "perform_reconstruction") =>
            LET before == loc[t].call.snap.structure
                after == epochs[1].structure
                task == loc[t].args
                src == SourceLevels(task)
                kept == IF task.target < Len(before) /\ task.target \notin src
                        THEN before[task.target + 1].m_shards ELSE <<>>
            IN /\ Len(after) = IF task.target = Len(before) THEN Len(before) + 1
                                ELSE Len(before)
               /\ \A l \in 0..(Len(before) - 1) :
                     /\ (l \in src /\ l # task.target) => after[l + 1].m_shards = <<>>
                     /\ (l \notin src /\ l # task.target) => after[l + 1] = before[l + 1]
               /\ Len(after[task.target + 1].m_shards) = Len(kept) + 1
               /\ SubSeq(after[task.target + 1].m_shards, 1, Len(kept)) = kept
               /\ \A r \in Recs \cup {3} :
                     /\ Net(after[task.target + 1].m_shards[Len(kept) + 1], r)
                            = Net(records_of(before, src), r)
                     /\ Net(records_of(after, 0..Len(after)), r)
                            = Net(records_of(before, 0..Len(before)), r)


(***************************************************************************)
(* SpecFlush: perform_flush applied to the same structures, for a Merge    *)
(* and for an Append task and the shard of every buffer view.              *)
(***************************************************************************)
\* vers->perform_flush(task, view) on the structure of epoch 1; buffer_shard
\* is ShardType(buffer); the structure before the call and the shard are
\* kept for the properties
perform_flush_call(t, type, buffer_shard) ==
    /\ t \in Threads
    /\ pc[t] = "idle"
    /\ epochs' = [epochs EXCEPT ![1].structure =
                     perform_flush(@, [get_flush_task EXCEPT !.type = type],
                                   buffer_shard)]
    /\ Go(t, "done", [IdleLoc EXCEPT !.op = "perform_flush",
                                     !.args = [type |-> type],
                                     !.flat = buffer_shard,
                                     !.call.snap.structure = epochs[1].structure])
    /\ UNCHANGED <<bufvars, slotvars, m_reconstruction_scheduled, m_epoch_cnt,
                   m_sched, D, conf, aborted, hist>>

NextFlush ==
    \E t \in {1} : \E type \in {"Merge", "Append"} : \E b \in BufferShards :
        perform_flush_call(t, type, b)

SpecFlush == InitReconstruct /\ [][NextFlush]_vars

\* C29: after perform_flush(task, view) level 0 holds the records of the
\* view and the records it held before, whatever the number of shards it
\* had: in one shard for a Merge task (less the pairs of a record and its
\* tombstone), with the shard of the view behind its former shards for an
\* Append task
C29_FlushKeepsRecords ==
    \A t \in Threads :
        (pc[t] = "done" /\ loc[t].op = "perform_flush") =>
            LET before == loc[t].call.snap.structure[1].m_shards
                after == epochs[1].structure[1].m_shards
            IN IF loc[t].args.type = "Append"
               THEN after = Append(before, loc[t].flat)
               ELSE /\ Len(after) = 1
                    /\ \A r \in Recs \cup {3} :
                          Net(after[1], r) = Net(Concat(before) \o loc[t].flat, r)

(***************************************************************************)
(* SpecWriters: both client threads insert, the reconstruction runs on the *)
(* pool; the run ends with its first reconstruction.                       *)
(***************************************************************************)
\* the steps inside insert and inside the reconstruction job
InsertStep(p) ==
    \/ worker_take(p)
    \/ undo_advance_tail(p)
    \/ internal_append_watermark(p)
    \/ internal_append_flag(p)
    \/ create_new_epoch_assert(p)
    \/ get_active_epoch_check(p)
    \/ get_active_epoch_load(p)
    \/ get_active_epoch_cas(p)
    \/ create_new_epoch_count(p)
    \/ \E ub \in Outcomes : create_new_epoch_clone(p, ub)
    \/ end_job_check(p)
    \/ end_job_load(p)
    \/ end_job_cas(p)
    \/ schedule_reconstruction(p)
    \/ reconstruction_merge(p)
    \/ reconstruction_view(p)
    \/ reconstruction_flush(p)
    \/ advance_epoch_previous(p)
    \/ advance_epoch_swap(p)
    \/ advance_epoch_store_previous(p)
    \/ advance_buffer_head(p)
    \/ advance_epoch_install(p)
    \/ advance_epoch_clear_next(p)
    \/ advance_epoch_notify(p)
    \/ reconstruction_clear(p)
    \/ internal_append_append(p)
    \/ try_advance_tail(p)
    \/ write_slot(p)
    \/ write_header(p)
    \/ publish(p)
    \/ api_return(p)

\* insert(rec), called until the first reconstruction has been scheduled
first_insert(t) == m_epoch_cnt = 0 /\ insert_call(t, RecOf(t))

NextWriters ==
    \E p \in Procs :
        \/ first_insert(p)
        \/ InsertStep(p)

SpecWriters == InitParallel /\ [][NextWriters]_vars

\* the thread p is inside advance_epoch
AdvancePcs ==
    {"a_retire_load", "a_retire", "a_swap", "a_store_prev", "a_head", "a_install",
     "a_clear_next", "a_notify"}

\* C30: in a reconstruction job that is not a compaction the view of the
\* buffer is taken after the merges of the policy, the head given to
\* advance_epoch is the tail of that view, the promise is fulfilled before
\* advance_epoch and the flag is cleared after it; the records published
\* behind the view are still in the buffer, at the positions they had, when
\* the head has been advanced
C30_JobOrderAndLateRecords ==
    /\ [](\A p \in Procs :
            /\ pc[p] = "r_merge" => loc[p].view = -1
            /\ pc[p] = "r_flush" => loc[p].new_head = loc[p].view
            /\ pc[p] \in AdvancePcs => loc[p].call.fulfilled = 1
            /\ pc[p] \in AdvancePcs \cup {"r_clear"} => m_reconstruction_scheduled)
    /\ [][\A p \in Procs :
             (pc[p] = "a_head" /\ pc'[p] = "a_install") =>
                 \A i \in loc[p].new_head..(m_reccnt - 1) :
                     /\ i < m_reccnt'
                     /\ m_data'[i].rec = m_data[i].rec
                     /\ m_data'[i].written = m_data[i].written]_vars

(***************************************************************************)
(* SpecCopy: ExtensionStructure::copy and InternalLevel::clone on a heap   *)
(* of objects.  In this specification the levels and the shards are        *)
(* objects of the heap epochs as well: the structure of an epoch is the    *)
(* vector of the addresses of its levels (shared_ptr<InternalLevel>), the  *)
(* m_shards of a level the vector of the addresses of its shards           *)
(* (shared_ptr<ShardType>), and a shard object holds its records.          *)
(***************************************************************************)
\* the level at address a with its shards read through their pointers
deref_level(h, a) ==
    [m_level_no |-> h[a].m_level_no,
     m_shards |-> [j \in 1..Len(h[a].m_shards) |-> h[h[a].m_shards[j]].recs]]

\* the structure whose m_levels is the vector of addresses s
deref(h, s) == [i \in 1..Len(s) |-> deref_level(h, s[i])]

\* the heap that holds the structure s, one object per level and per shard,
\* behind the epoch that owns it
heap_of(s) ==
    LET n == Len(s)
        before(i) == SumSeq([k \in 1..(i - 1) |-> Len(s[k].m_shards)])
        shards == Concat([i \in 1..n |->
                             [j \in 1..Len(s[i].m_shards) |->
                                 [recs |-> s[i].m_shards[j]]]])
    IN <<[number |-> 0, structure |-> [i \in 1..n |-> 1 + i], freed |-> FALSE]>>
       \o [i \in 1..n |->
              [m_level_no |-> s[i].m_level_no,
               m_shards |-> [j \in 1..Len(s[i].m_shards) |-> 1 + n + before(i) + j]]]
       \o shards

\* The heap after a perform_* call on the structure s has left the levels
\* after: the level objects of s are changed in place, a level behind them
\* and every shard behind the first kept[i] of level i is a new object
\* (truncate drops the pointers of a level, append adds the pointer to the
\* shard that was built).  The result is the heap and the new m_levels.
write_back(h, s, after, kept) ==
    LET n == Len(after)
        keep(i) == IF i <= Len(s) THEN kept[i] ELSE 0
        fresh(i) == Len(after[i].m_shards) - keep(i)
        before(i) == SumSeq([k \in 1..(i - 1) |-> fresh(k)])
        levels == s \o [k \in 1..(n - Len(s)) |-> Len(h) + k]
        base == Len(h) + (n - Len(s))
        object(i) ==
            [m_level_no |-> after[i].m_level_no,
             m_shards |->
                 [j \in 1..Len(after[i].m_shards) |->
                     IF j <= keep(i) THEN h[s[i]].m_shards[j]
                     ELSE base + before(i) + (j - keep(i))]]
        shards == Concat([i \in 1..n |->
                             [j \in 1..fresh(i) |->
                                 [recs |-> after[i].m_shards[keep(i) + j]]]])
        changed == [a \in 1..Len(h) |->
                       IF \E i \in 1..Len(s) : s[i] = a
                       THEN object(CHOOSE i \in 1..Len(s) : s[i] = a)
                       ELSE h[a]]
    IN [heap |-> changed \o [k \in 1..(n - Len(s)) |-> object(Len(s) + k)] \o shards,
        levels |-> levels]

\* the heap after the records of the shards of s have become those of after
\* (set_delete through the pointer a point lookup returned)
write_shards(h, s, after) ==
    [a \in 1..Len(h) |->
        IF \E i \in 1..Len(s) : \E j \in 1..Len(h[s[i]].m_shards) :
              h[s[i]].m_shards[j] = a
        THEN LET ij == CHOOSE ij \in (1..Len(s)) \X (1..Len(h)) :
                          /\ ij[2] <= Len(h[s[ij[1]]].m_shards)
                          /\ h[s[ij[1]]].m_shards[ij[2]] = a
             IN [recs |-> after[ij[1]].m_shards[ij[2]]]
        ELSE h[a]]

InitCopy ==
    \E s \in ReconStructures :
        /\ conf = [layout |-> "BSM", lwm |-> BufCap, hwm |-> BufCap]
        /\ m_tail = 0
        /\ m_reccnt = 0
        /\ m_tombstonecnt = 0
        /\ m_data = EmptyData
        /\ m_refcnt = 0
        /\ pc = [t \in Procs |-> "idle"]
        /\ loc = [t \in Procs |-> IdleLoc]
        /\ epochs = heap_of(s)
        /\ m_current_epoch = [epoch |-> 1, refcnt |-> 0]
        /\ m_previous_epoch = NullPtr
        /\ m_next_epoch = NullPtr
        /\ m_reconstruction_scheduled = FALSE
        /\ m_epoch_cnt = 0
        /\ m_sched = [kind |-> "serial", queue |-> <<>>]
        /\ D = "TAGGING"
        /\ aborted = "no"
        /\ hist = [installed |-> 0, accepted |-> {}, ninserted |-> 0]

\* m_levels[i]->clone() on level i of the structure of epoch 1; the
\* addresses of the level and of its clone are kept for the properties
clone_call(t, i, ub) ==
    /\ t \in Threads
    /\ pc[t] = "idle"
    /\ i < Len(epochs[1].structure)
    /\ LET a == epochs[1].structure[i + 1]
       IN IF ~clone_in_bounds(epochs[a]) /\ ub = "crash"
          THEN Abort("crash")
          ELSE /\ epochs' = Append(epochs, clone(epochs[a]))
               /\ Go(t, "done", [IdleLoc EXCEPT !.op = "clone",
                                                !.args = [level |-> a,
                                                          clone |-> Len(epochs) + 1]])
               /\ UNCHANGED <<bufvars, slotvars, m_reconstruction_scheduled,
                              m_epoch_cnt, m_sched, D, conf, aborted, hist>>

\* copy() on the structure of epoch 1; the copy becomes the structure of a
\* new epoch, whose address the thread keeps
copy_call(t, ub) ==
    /\ t \in Threads
    /\ pc[t] = "idle"
    /\ LET s == epochs[1].structure
           levels == [i \in 1..Len(s) |-> epochs[s[i]]]
       IN IF ~copy_in_bounds(levels) /\ ub = "crash"
          THEN Abort("crash")
          ELSE /\ epochs' = epochs \o copy(levels)
                              \o <<[number |-> 1,
                                    structure |-> [i \in 1..Len(s) |-> Len(epochs) + i],
                                    freed |-> FALSE]>>
               /\ Go(t, "copied", [IdleLoc EXCEPT !.op = "copy",
                                                  !.epoch = Len(epochs) + Len(s) + 1])
               /\ UNCHANGED <<bufvars, slotvars, m_reconstruction_scheduled,
                              m_epoch_cnt, m_sched, D, conf, aborted, hist>>

\* tagged_delete(rec) on the structure of epoch 1 while the copy exists
parent_tagged_delete(t, rec, ub) ==
    /\ t \in Threads
    /\ pc[t] = "copied"
    /\ loc[t].call.tagged = <<>>
    /\ LET s == epochs[1].structure
           r == tagged_delete(deref(epochs, s), rec, ub)
       IN IF r.ret = -1
          THEN Abort("crash")
          ELSE /\ r.hit # <<>>
               /\ epochs' = write_shards(epochs, s, r.levels)
               /\ Go(t, "copied", [loc[t] EXCEPT !.rec = rec, !.call.tagged = r.hit])
               /\ UNCHANGED <<bufvars, slotvars, m_reconstruction_scheduled,
                              m_epoch_cnt, m_sched, D, conf, aborted, hist>>

\* perform_reconstruction(task) on the copy
copy_perform_reconstruction(t, task) ==
    /\ t \in Threads
    /\ pc[t] = "copied"
    /\ LET e == loc[t].epoch
           s == epochs[e].structure
           before == deref(epochs, s)
           src == {task.sources[k].level_idx : k \in 1..Len(task.sources)}
           kept == [i \in 1..Len(s) |->
                       IF (i - 1) \in src THEN 0 ELSE Len(before[i].m_shards)]
       IN /\ reconstruction_asserts(before, task)
          /\ task.target <= Len(s)
          /\ LET w == write_back(epochs, s, perform_reconstruction(before, task), kept)
             IN epochs' = [w.heap EXCEPT ![e].structure = w.levels]
    /\ Go(t, "done", [loc[t] EXCEPT !.op = "perform_reconstruction"])
    /\ UNCHANGED <<bufvars, slotvars, m_reconstruction_scheduled, m_epoch_cnt,
                   m_sched, D, conf, aborted, hist>>

\* perform_flush(task, view) on the copy
copy_perform_flush(t, type, buffer_shard) ==
    /\ t \in Threads
    /\ pc[t] = "copied"
    /\ LET e == loc[t].epoch
           s == epochs[e].structure
           before == deref(epochs, s)
           kept == [i \in 1..Len(s) |->
                       IF i = 1 /\ type # "Append" THEN 0
                       ELSE Len(before[i].m_shards)]
           w == write_back(epochs, s,
                           perform_flush(before, [get_flush_task EXCEPT !.type = type],
                                         buffer_shard), kept)
       IN epochs' = [w.heap EXCEPT ![e].structure = w.levels]
    /\ Go(t, "done", [loc[t] EXCEPT !.op = "perform_flush"])
    /\ UNCHANGED <<bufvars, slotvars, m_reconstruction_scheduled, m_epoch_cnt,
                   m_sched, D, conf, aborted, hist>>

NextCopy ==
    \E t \in {1} :
        \/ \E i \in 0..(MaxReconLevels - 1) : \E ub \in Outcomes : clone_call(t, i, ub)
        \/ \E ub \in Outcomes : copy_call(t, ub)
        \/ \E rec \in {1, 3} : \E ub \in Outcomes : parent_tagged_delete(t, rec, ub)
        \/ \E task \in ReconTasks : copy_perform_reconstruction(t, task)
        \/ \E type \in {"Merge", "Append"} : \E b \in BufferShards :
              copy_perform_flush(t, type, b)

SpecCopy == InitCopy /\ [][NextCopy]_vars

\* C32: the level clone() returns is a new level with the level number of
\* the original and the same number of shards, and holds at every index the
\* pointer to the shard the original holds there, whatever the number of
\* shards of the original
C32_CloneSharesShards ==
    \A t \in Threads :
        (pc[t] = "done" /\ loc[t].op = "clone") =>
            LET orig == epochs[loc[t].args.level]
                new == epochs[loc[t].args.clone]
            IN /\ loc[t].args.clone # loc[t].args.level
               /\ new.m_level_no = orig.m_level_no
               /\ Len(new.m_shards) = Len(orig.m_shards)
               /\ \A j \in 1..Len(orig.m_shards) : new.m_shards[j] = orig.m_shards[j]

\* the structure copy() was called on and the copy the thread t holds
parent_levels == epochs[1].structure
copy_levels(t) == epochs[loc[t].epoch].structure

\* C31: a perform_reconstruction or perform_flush on the copy changes
\* neither the level list of the parent nor the shard list of a level of
\* the parent; the copy holds, level by level, the pointers to the shards
\* the parent holds, in levels of its own, so that the record a tagged
\* delete through the parent has tagged is tagged in the copy as well
C31_CopyIsIndependent ==
    /\ [][\A t \in Threads :
             (pc[t] = "copied" /\ pc'[t] = "done") =>
                 /\ epochs'[1].structure = parent_levels
                 /\ \A i \in 1..Len(parent_levels) :
                       epochs'[parent_levels[i]] = epochs[parent_levels[i]]]_vars
    /\ [](\A t \in Threads :
            pc[t] = "copied" =>
                /\ Len(copy_levels(t)) = Len(parent_levels)
                /\ \A i \in 1..Len(parent_levels) :
                      /\ copy_levels(t)[i] # parent_levels[i]
                      /\ epochs[copy_levels(t)[i]].m_shards
                             = epochs[parent_levels[i]].m_shards
                /\ \A k \in 1..Len(loc[t].call.tagged) :
                      LET hit == loc[t].call.tagged[k]
                          s == deref(epochs, copy_levels(t))
                      IN /\ hit[3] <= Len(s[hit[2]].m_shards)
                         /\ hit[4] <= Len(s[hit[2]].m_shards[hit[3]])
                         /\ is_deleted(s[hit[2]].m_shards[hit[3]][hit[4]].header))

(***************************************************************************)
(* SpecPolicy: the body of a reconstruction job on structures of up to     *)
(* MaxPolicyLevels levels under both layouts: the tasks of the policy, the *)
(* merges one after the other, the flush of a buffer view.                 *)
(***************************************************************************)
MaxPolicyLevels == 3

\* a level holds no record, a quarter of its capacity or its capacity, in
\* one shard of live records
PolicyCount(i, o) ==
    IF o = 1 THEN 0 ELSE IF o = 2 THEN capacity(i) \div 4 ELSE capacity(i)

PolicyLevel(i, n) ==
    [m_level_no |-> i,
     m_shards |-> IF n = 0 THEN <<>>
                  ELSE <<[k \in 1..n |-> [rec |-> i + 1, header |-> 0]]>>]

InitPolicy ==
    \E l \in Layouts : \E n \in 0..MaxPolicyLevels : \E f \in [1..n -> 1..3] :
        /\ conf = [layout |-> l, lwm |-> BufCap, hwm |-> BufCap]
        /\ m_tail = 0
        /\ m_reccnt = 0
        /\ m_tombstonecnt = 0
        /\ m_data = EmptyData
        /\ m_refcnt = 0
        /\ pc = [t \in Procs |-> "idle"]
        /\ loc = [t \in Procs |-> IdleLoc]
        /\ epochs = <<[number |-> 0,
                       structure |-> [i \in 1..n |->
                                         PolicyLevel(i - 1, PolicyCount(i - 1, f[i]))],
                       freed |-> FALSE]>>
        /\ m_current_epoch = [epoch |-> 1, refcnt |-> 0]
        /\ m_previous_epoch = NullPtr
        /\ m_next_epoch = NullPtr
        /\ m_reconstruction_scheduled = FALSE
        /\ m_epoch_cnt = 0
        /\ m_sched = [kind |-> "serial", queue |-> <<>>]
        /\ D = "TOMBSTONE"
        /\ aborted = "no"
        /\ hist = [installed |-> 0, accepted |-> {}, ninserted |-> 0]

\* get_reconstruction_tasks of the layout policy on the structure of epoch
\* 1; the tasks and the structure are kept, pos counts the tasks applied
plan_call(t) ==
    /\ t \in Threads
    /\ pc[t] = "idle"
    /\ Go(t, "planned",
          [IdleLoc EXCEPT !.op = "plan",
                          !.pos = 0,
                          !.args = [epoch |-> 1,
                                    merges |-> policy_reconstruction_tasks(
                                                   epochs[1].structure)],
                          !.call.snap.structure = epochs[1].structure])
    /\ UNCHANGED <<bufvars, devars>>

\* the task the loop for (i = 0; i < args->merges.size(); i++) applies after
\* pos tasks (DynamicExtension.h lines 568-571)
next_task_mut(merges, pos) == merges[Len(merges) - pos]
next_task(merges, pos) == merges[pos + 1]

\* one vers->reconstruction(...) of the job; result collects the tasks
\* whose target level held a shard when they were applied
plan_merge(t) ==
    /\ t \in Threads
    /\ pc[t] = "planned"
    /\ LET todo == applied_merges(loc[t].args.merges)
           s == epochs[1].structure
       IN IF loc[t].pos >= Len(todo)
          THEN /\ Go(t, "merged", loc[t])
               /\ UNCHANGED <<bufvars, devars>>
          ELSE LET task == next_task(todo, loc[t].pos)
                   full == task.target < Len(s) /\ s[task.target + 1].m_shards # <<>>
               IN IF ~reconstruction_asserts(s, task)
                  THEN Abort("assert source level")
                  ELSE /\ epochs' = [epochs EXCEPT ![1].structure =
                                        perform_reconstruction(s, task)]
                       /\ Go(t, "planned",
                             [loc[t] EXCEPT !.pos = @ + 1,
                                            !.result = IF full THEN @ \cup {task}
                                                       ELSE @])
                       /\ UNCHANGED <<bufvars, slotvars, m_reconstruction_scheduled,
                                      m_epoch_cnt, m_sched, D, conf, aborted, hist>>

\* vers->flush_buffer(view) of the job, buffer_shard the shard of the view
plan_flush(t, buffer_shard) ==
    /\ t \in Threads
    /\ pc[t] = "merged"
    /\ IF Len(epochs[1].structure) = 0
       THEN Abort("crash")
       ELSE /\ epochs' = [epochs EXCEPT ![1].structure =
                             perform_flush(@, get_flush_task, buffer_shard)]
            /\ Go(t, "done", [loc[t] EXCEPT !.flat = buffer_shard])
            /\ UNCHANGED <<bufvars, slotvars, m_reconstruction_scheduled,
                           m_epoch_cnt, m_sched, D, conf, aborted, hist>>

NextPolicy ==
    \E t \in {1} :
        \/ plan_call(t)
        \/ plan_merge(t)
        \/ \E b \in BufferShards : plan_flush(t, b)

SpecPolicy == InitPolicy /\ [][NextPolicy]_vars

\* the shallowest level of levels that has room by the test fits, the
\* number of levels when there is none
ShallowestFit(levels, fits(_, _)) ==
    IF \E i \in 0..(Len(levels) - 1) : fits(levels, i)
    THEN CHOOSE i \in 0..(Len(levels) - 1) :
            fits(levels, i) /\ \A j \in 0..(i - 1) : ~fits(levels, j)
    ELSE Len(levels)

\* the records that arrive at level i under leveling
Incoming(levels, i) ==
    IF i = 0 THEN m_buffer_size ELSE level_record_count(levels[i])

LevelingFits(levels, i) ==
    level_record_count(levels[i + 1]) + Incoming(levels, i) < capacity(i)

\* C33: under leveling the plan has, for the shallowest level T with
\* record_count(T) + incoming_T < capacity(T) (the number of levels when no
\* level has that room), one Merge task from level i-1 into level i for
\* every i from T down to 1
C33_LevelingPlan ==
    \A t \in Threads :
        (conf.layout = "LEVELING" /\ loc[t].op = "plan") =>
            LET levels == loc[t].call.snap.structure
                T == ShallowestFit(levels, LevelingFits)
                tasks == loc[t].args.merges
            IN /\ Len(tasks) = T
               /\ \A k \in 1..Len(tasks) :
                     tasks[k] = [sources |-> <<[level_idx |-> T - k,
                                                shard_idx |-> all_shards_idx]>>,
                                 target |-> T - k + 1, type |-> "Merge"]

BSMFits(levels, i) == level_record_count(levels[i + 1]) + m_buffer_size <= capacity(i)

\* the levels T, T-1, ..., 1 that exist among n levels, each with all its shards
ExistingSources(T, n) ==
    LET m == IF T < n THEN T ELSE n - 1
    IN [k \in 1..(IF m > 0 THEN m ELSE 0) |->
           [level_idx |-> m - k + 1, shard_idx |-> all_shards_idx]]

\* all the records the structure s holds
all_records(s) == Concat([i \in 1..Len(s) |-> Concat(s[i].m_shards)])

\* C34: under BSM the plan is one Merge task; its target is the shallowest
\* level T with record_count(T) + buffer size <= capacity(T), the number of
\* levels when no level fits, and its sources are all the shards of every
\* existing level from T down to 1; once the task and then the flush have
\* been applied the structure holds every record it held before and every
\* record of the view
C34_BSMPlanKeepsRecords ==
    \A t \in Threads :
        (conf.layout = "BSM" /\ loc[t].op = "plan") =>
            LET levels == loc[t].call.snap.structure
                T == ShallowestFit(levels, BSMFits)
            IN /\ loc[t].args.merges =
                      <<[sources |-> ExistingSources(T, Len(levels)),
                         target |-> T, type |-> "Merge"]>>
               /\ pc[t] = "done" =>
                     \A r \in 1..(MaxPolicyLevels + 1) :
                         Occurs(all_records(epochs[1].structure), r, FALSE)
                             = Occurs(all_records(levels), r, FALSE)
                               + Occurs(loc[t].flat, r, FALSE)

\* the targets of the plan descend level by level, under leveling down to 1
PlanDescends(t) ==
    LET tasks == loc[t].args.merges
    IN /\ \A k \in 1..(Len(tasks) - 1) : tasks[k + 1].target = tasks[k].target - 1
       /\ (conf.layout = "LEVELING" /\ tasks # <<>>) => tasks[Len(tasks)].target = 1

\* C35 as stated: the tasks of the plan are ordered from the deepest target
\* down to level 1 and the target level of every task holds no shard when
\* the task is applied
C35_EveryTargetEmpty ==
    \A t \in Threads :
        loc[t].op = "plan" => (PlanDescends(t) /\ loc[t].result = {})

\* C35 (amended): the tasks of the plan are ordered from the deepest target
\* down to level 1 and the target level of every task behind the first
\* holds no shard when the task is applied; the target of the first task,
\* the deepest, may hold shards
C35_LaterTargetsEmpty ==
    \A t \in Threads :
        loc[t].op = "plan" =>
            /\ PlanDescends(t)
            /\ \A task \in loc[t].result : task = loc[t].args.merges[1]

\* a plan of two tasks has been applied, the first to a level that held a
\* shard, the second to the level the first had emptied
C35_Witness ==
    \E t \in Threads :
        /\ loc[t].op = "plan"
        /\ pc[t] = "merged"
        /\ Len(loc[t].args.merges) = 2
        /\ loc[t].pos = 2
        /\ loc[t].result = {loc[t].args.merges[1]}
        /\ loc[t].call.snap.structure[2].m_shards # <<>>

(***************************************************************************)
(* SpecCompact: the serial scheduler; one thread inserts, queries and runs *)
(* compactions (reconstruction jobs with args->compaction = true).         *)
(***************************************************************************)
\* the compaction tasks of a structure: Epoch and get_compaction_tasks decide
\* which levels need one; a task merges the shards of one level that holds
\* shards into that level
CompactionLevels == 0..(MaxPolicyLevels - 1)

compaction_tasks(s, level) ==
    IF level < Len(s) /\ s[level + 1].m_shards # <<>>
    THEN <<[sources |-> <<[level_idx |-> level, shard_idx |-> all_shards_idx]>>,
            target |-> level, type |-> "Compact"]>>
    ELSE <<>>

\* enforce_delete_invariant(epoch) for the epoch of a slot: args->epoch,
\* args->merges, args->compaction = true, schedule_job (the serial scheduler
\* runs the job inside it).  The state the job starts in is kept for the
\* properties.
compaction_call(t, slot, level) ==
    /\ t \in Threads
    /\ pc[t] = "idle"
    /\ m_sched.kind = "serial"
    /\ Slot(slot).epoch # NULL
    /\ LET e == Slot(slot).epoch
           compactions == compaction_tasks(epochs[e].structure, level)
       IN /\ Len(compactions) > 0
          /\ Go(t, "c_merge",
                [IdleLoc EXCEPT
                    !.op = "compact",
                    !.args = [epoch |-> e, merges |-> compactions],
                    !.call.snap = [data |-> m_data,
                                   structure |-> epochs[e].structure,
                                   slots |-> <<m_previous_epoch, m_current_epoch,
                                               m_next_epoch>>,
                                   tail |-> m_tail,
                                   reccnt |-> m_reccnt]])
    /\ UNCHANGED <<bufvars, devars>>

\* vers->reconstruction(...) for the tasks of the job (lines 561-572)
compaction_merge(p) ==
    /\ pc[p] = "c_merge"
    /\ LET e == loc[p].args.epoch
           done == apply_merges(epochs[e].structure, applied_merges(loc[p].args.merges))
       IN IF done = <<>>
          THEN Abort("assert source level")
          ELSE /\ epochs' = [epochs EXCEPT ![e].structure = done[1]]
               /\ Go(p, "c_view", loc[p])
               /\ UNCHANGED <<bufvars, slotvars, m_reconstruction_scheduled,
                              m_epoch_cnt, m_sched, D, conf, aborted, hist>>

\* auto buffer_view = args->epoch->get_buffer(); new_head (lines 580-581)
compaction_view(p) ==
    /\ pc[p] = "c_view"
    /\ m_refcnt' = m_refcnt + 1
    /\ Go(p, "c_result", [loc[p] EXCEPT !.view = m_reccnt, !.new_head = m_reccnt])
    /\ UNCHANGED <<m_tail, m_reccnt, m_tombstonecnt, m_data, devars>>

\* if (!args->compaction) before flush_buffer (line 588)
job_flushes_mut(compaction) == TRUE
job_flushes(compaction) == ~compaction

\* lines 588-601 with args->compaction = true: flush_buffer is skipped,
\* args->result.set_value(true), advance_epoch is skipped
compaction_result(p) ==
    /\ pc[p] = "c_result"
    /\ LET e == loc[p].args.epoch
       IN IF job_flushes(TRUE) /\ Len(epochs[e].structure) > 0
             /\ view_in_bounds(loc[p].view)
          THEN /\ epochs' = [epochs EXCEPT ![e].structure =
                                perform_flush(@, get_flush_task,
                                              shard_from_buffer(m_data, loc[p].view))]
               /\ m_data' = buffer_after_shard(m_data, loc[p].view)
               /\ m_refcnt' = m_refcnt - 1
               /\ Go(p, "c_clear", [loc[p] EXCEPT !.view = -1,
                                                  !.call.fulfilled = @ + 1])
          ELSE /\ Go(p, "c_clear", [loc[p] EXCEPT !.call.fulfilled = @ + 1])
               /\ UNCHANGED <<epochs, m_data, m_refcnt>>
    /\ UNCHANGED <<m_tail, m_reccnt, m_tombstonecnt, slotvars,
                   m_reconstruction_scheduled, m_epoch_cnt, m_sched, D, conf,
                   aborted, hist>>

\* m_reconstruction_scheduled.store(false); delete args; the view is gone
\* when the job returns (lines 603-607), and wait.get() returns in
\* enforce_delete_invariant (line 424)
compaction_clear(p) ==
    /\ pc[p] = "c_clear"
    /\ m_reconstruction_scheduled' = FALSE
    /\ m_refcnt' = IF loc[p].view = -1 THEN m_refcnt ELSE m_refcnt - 1
    /\ Go(p, "done", [loc[p] EXCEPT !.view = -1])
    /\ UNCHANGED <<m_tail, m_reccnt, m_tombstonecnt, m_data, slotvars, m_epoch_cnt,
                   epochs, m_sched, D, conf, aborted, hist>>

NextCompact ==
    \E t \in {1} :
        \/ \E r \in Recs : insert_call(t, r)
        \/ query_call(t)
        \/ SerialStep(t)
        \/ \E slot \in {"cur", "prev"} : \E level \in CompactionLevels :
              compaction_call(t, slot, level)
        \/ compaction_merge(t)
        \/ compaction_view(t)
        \/ compaction_result(t)
        \/ compaction_clear(t)

SpecCompact == InitSerial /\ [][NextCompact]_vars

\* C36: when a compaction job has ended the three epoch slots hold what
\* they held when it was started, the buffer holds the same records at the
\* same places below the same tail, and the structure the job worked on has
\* received no record of the buffer
C36_CompactionLeavesEpochsAndBuffer ==
    \A t \in Threads :
        (pc[t] = "done" /\ loc[t].op = "compact") =>
            LET before == loc[t].call.snap
            IN /\ <<m_previous_epoch, m_current_epoch, m_next_epoch>> = before.slots
               /\ m_data = before.data
               /\ m_tail = before.tail
               /\ m_reccnt = before.reccnt
               /\ structure_record_count(epochs[loc[t].args.epoch].structure)
                      <= structure_record_count(before.structure)

\* a compaction has ended on a structure with records while the buffer held
\* a record
C36_Witness ==
    \E t \in Threads :
        /\ pc[t] = "done"
        /\ loc[t].op = "compact"
        /\ loc[t].call.fulfilled = 1
        /\ m_reccnt > 0
        /\ structure_record_count(loc[t].call.snap.structure) > 0

(***************************************************************************)
(* SpecErase: erase under TAGGING and the serial scheduler, called on a    *)
(* structure of up to MaxReconLevels levels with up to MaxReconShards      *)
(* shards each and on a buffer of up to BufCap records.                    *)
(***************************************************************************)
\* the records that are erased: those of the shards and of the buffer
EraseRecs == {1, 2, 3}

\* the buffer after the live records of f have been appended
buffer_of(f) ==
    [i \in 0..(BufCap - 1) |->
        IF i < Len(f) THEN [rec |-> f[i + 1], header |-> 4 * i, written |-> 2]
        ELSE Unwritten]

InitErase ==
    \E s \in ReconStructures : \E f \in UNION {[1..n -> Recs] : n \in 0..BufCap} :
        /\ conf = [layout |-> "BSM", lwm |-> BufCap, hwm |-> BufCap]
        /\ m_tail = Len(f)
        /\ m_reccnt = Len(f)
        /\ m_tombstonecnt = 0
        /\ m_data = buffer_of(f)
        /\ m_refcnt = 0
        /\ pc = [t \in Procs |-> "idle"]
        /\ loc = [t \in Procs |-> IdleLoc]
        /\ epochs = <<[number |-> 0, structure |-> s, freed |-> FALSE]>>
        /\ m_current_epoch = [epoch |-> 1, refcnt |-> 0]
        /\ m_previous_epoch = NullPtr
        /\ m_next_epoch = NullPtr
        /\ m_reconstruction_scheduled = FALSE
        /\ m_epoch_cnt = 0
        /\ m_sched = [kind |-> "serial", queue |-> <<>>]
        /\ D = "TAGGING"
        /\ aborted = "no"
        /\ hist = [installed |-> 0, accepted |-> {}, ninserted |-> 0]

NextErase ==
    \E t \in {1} :
        \/ \E r \in EraseRecs : erase_call(t, r)
        \/ get_active_epoch_check(t)
        \/ get_active_epoch_load(t)
        \/ get_active_epoch_cas(t)
        \/ \E ub \in Outcomes : erase_tagged_delete(t, ub)
        \/ end_job_check(t)
        \/ end_job_load(t)
        \/ end_job_cas(t)
        \/ erase_buffer(t)

SpecErase == InitErase /\ [][NextErase]_vars

\* the places of the structure s that hold a record equal to rec
ShardMatches(s, rec) ==
    {h \in (1..Len(s)) \X (1..MaxReconShards) \X (1..MaxStructRecs) :
        /\ h[2] <= Len(s[h[1]].m_shards)
        /\ h[3] <= Len(s[h[1]].m_shards[h[2]])
        /\ s[h[1]].m_shards[h[2]][h[3]].rec = rec}

\* level before level, shard before shard, record before record
SearchedBefore(a, b) ==
    \/ a[1] < b[1]
    \/ a[1] = b[1] /\ a[2] < b[2]
    \/ a[1] = b[1] /\ a[2] = b[2] /\ a[3] < b[3]

\* C37: a tagged delete sets the delete bit of the first record equal to
\* rec in the order of the search and changes nothing else: the levels from
\* level 0, the shards of a level from index 0, the records of a shard from
\* the first, and after the structure the slots of the buffer from slot 0
C37_TagsFirstMatch ==
    \A t \in Threads :
        (pc[t] = "done" /\ loc[t].op = "erase") =>
            LET s == loc[t].call.snap.structure
                M == ShardMatches(s, loc[t].rec)
                B == {i \in 0..(m_reccnt - 1) : loc[t].call.snap.data[i].rec = loc[t].rec}
            IN IF M # {}
               THEN LET h == CHOOSE a \in M : \A b \in M \ {a} : SearchedBefore(a, b)
                    IN /\ loc[t].call.tagged = <<<<"shard", h[1], h[2], h[3]>>>>
                       /\ TaggedOnly(t, loc[t].call.tagged[1])
               ELSE IF B # {}
               THEN LET i == CHOOSE a \in B : \A b \in B : a <= b
                    IN /\ loc[t].call.tagged = <<<<"buffer", i, 0, 0>>>>
                       /\ TaggedOnly(t, loc[t].call.tagged[1])
               ELSE /\ loc[t].call.tagged = <<>>
                    /\ m_data = loc[t].call.snap.data
                    /\ epochs[loc[t].epoch].structure = s

(***************************************************************************)
(* SpecHeaders: one thread that appends to the buffer, tags records of the *)
(* buffer, builds a shard from the buffer and truncates it.                *)
(***************************************************************************)
\* PGM(buffer), the copy loop over the sorted buffer (PGM.h lines 89-110):
\*     if (!(base->is_tombstone()) && (base + 1) < stop) {
\*         if (base->rec == (base + 1)->rec && (base + 1)->is_tombstone()) {
\*             base += 2; continue; }
\*     } else if (base->is_deleted()) { base += 1; continue; }
\*     base->header &= 1;  m_data[m_reccnt++] = *base;
\* the test of the delete tag is the else branch of the outer if: a record
\* that is no tombstone and is not the last one never reaches it
RECURSIVE PGMCancelAndCopy(_)
PGMCancelAndCopy(s) ==
    IF s = <<>> THEN <<>>
    ELSE IF ~is_tombstone(s[1].header) /\ Len(s) >= 2
    THEN IF s[2].rec = s[1].rec /\ is_tombstone(s[2].header)
         THEN PGMCancelAndCopy(SubSeq(s, 3, Len(s)))
         ELSE <<[rec |-> s[1].rec, header |-> s[1].header % 2]>>
                  \o PGMCancelAndCopy(Tail(s))
    ELSE IF is_deleted(s[1].header) THEN PGMCancelAndCopy(Tail(s))
    ELSE <<[rec |-> s[1].rec, header |-> s[1].header % 2]>>
             \o PGMCancelAndCopy(Tail(s))

\* the same loop: what it leaves behind in the buffer it walks over
RECURSIVE PGMMaskInPlace(_)
PGMMaskInPlace(s) ==
    IF s = <<>> THEN <<>>
    ELSE IF ~is_tombstone(s[1].header) /\ Len(s) >= 2
    THEN IF s[2].rec = s[1].rec /\ is_tombstone(s[2].header)
         THEN <<s[1], s[2]>> \o PGMMaskInPlace(SubSeq(s, 3, Len(s)))
         ELSE <<[s[1] EXCEPT !.header = @ % 2]>> \o PGMMaskInPlace(Tail(s))
    ELSE IF is_deleted(s[1].header) THEN <<s[1]>> \o PGMMaskInPlace(Tail(s))
    ELSE <<[s[1] EXCEPT !.header = @ % 2]>> \o PGMMaskInPlace(Tail(s))

\* the shard classes a buffer is handed to
ShardKinds == {"MemISAM", "PGM"}

\* ShardType(buffer): the shard built from the slots [0, tail)
built_from_buffer(kind, data, tail) ==
    IF kind = "PGM" THEN PGMCancelAndCopy(SortWrapped(Slots(data, tail)))
    ELSE shard_from_buffer(data, tail)

\* ShardType(buffer): the buffer after the constructor has sorted it in place
buffer_after_build(kind, data, tail) ==
    IF kind = "PGM"
    THEN LET s == PGMMaskInPlace(SortWrapped(Slots(data, tail)))
         IN [i \in DOMAIN data |-> IF i < tail THEN s[i + 1] ELSE data[i]]
    ELSE buffer_after_shard(data, tail)

\* MutableBuffer::delete_record(rec) (lines 123-134): set_delete on the
\* lowest slot below the record count that holds rec
delete_record_call(t, rec) ==
    /\ pc[t] = "idle"
    /\ LET i == buffer_find(m_data, m_reccnt, rec)
       IN IF i = -1
          THEN /\ Go(t, "done", [IdleLoc EXCEPT !.op = "delete_record",
                                               !.rec = rec, !.ret = 0])
               /\ UNCHANGED m_data
          ELSE /\ m_data' = [m_data EXCEPT ![i].header = set_delete(@)]
               /\ Go(t, "done", [IdleLoc EXCEPT !.op = "delete_record",
                                               !.rec = rec, !.ret = 1, !.pos = i])
    /\ UNCHANGED <<m_tail, m_reccnt, m_tombstonecnt, m_refcnt, devars>>

\* new ShardType(buffer) on a buffer that holds at least one record: the
\* constructor sorts the slots [0, get_record_count()) in place and masks
\* the header of every record it copies
build_shard(t, kind) ==
    /\ pc[t] = "idle"
    /\ m_reccnt > 0
    /\ m_data' = buffer_after_build(kind, m_data, m_reccnt)
    /\ Go(t, "built", [IdleLoc EXCEPT !.op = "build",
                                     !.flat = built_from_buffer(kind, m_data, m_reccnt),
                                     !.call.snap.data = m_data])
    /\ UNCHANGED <<m_tail, m_reccnt, m_tombstonecnt, m_refcnt, devars>>

\* buffer->truncate() once the shard has been built
build_truncate(t) ==
    /\ pc[t] = "built"
    /\ m_tombstonecnt' = 0
    /\ m_reccnt' = 0
    /\ m_tail' = 0
    /\ m_data' = truncate(m_data)
    /\ Go(t, "done", loc[t])
    /\ UNCHANGED <<m_refcnt, devars>>

\* delete_record and truncate return to the caller
buffer_return(t) ==
    /\ pc[t] = "done"
    /\ loc[t].op \in {"delete_record", "build", "truncate"}
    /\ Go(t, "idle", IdleLoc)
    /\ UNCHANGED <<bufvars, devars>>

InitHeaders == InitWith("serial", "TAGGING")

NextHeaders ==
    \E t \in {1} :
        \/ \E r \in Recs, ts \in BOOLEAN : append_call(t, r, ts)
        \/ try_advance_tail(t)
        \/ undo_advance_tail(t)
        \/ write_slot(t)
        \/ write_header(t)
        \/ count_tombstone(t)
        \/ publish(t)
        \/ append_return(t)
        \/ \E r \in Recs : delete_record_call(t, r)
        \/ \E kind \in ShardKinds : build_shard(t, kind)
        \/ build_truncate(t)
        \/ buffer_return(t)

SpecHeaders == InitHeaders /\ [][NextHeaders]_vars

\* append has stored its record: the thread is past line 74
Stored(t) ==
    \/ pc[t] \in {"tscount", "publish"}
    \/ pc[t] = "done" /\ loc[t].op = "append" /\ loc[t].ret = 1

\* the shard constructor runs in this step
Building == \E t \in Procs : pc[t] = "idle" /\ pc'[t] = "built"

\* slot i holds the same record before and after the step: a constructor
\* leaves in slot i the record that std::sort puts there, every other step
\* leaves the records where they are
Stays(i) ==
    /\ i < m_reccnt'
    /\ m_data'[i].rec = m_data[i].rec
    /\ Building => SortWrapped(Slots(m_data, m_reccnt))[i + 1] = m_data[i]

\* C38: a record stored by append at slot pos has bit 0 of its header equal
\* to the tombstone flag, bit 1 clear and bits 2-31 equal to pos; from then
\* on, as long as the record stays in its slot of the buffer, bit 0 never
\* changes and bit 1 only changes from 0 to 1, also while a shard is built
\* from the buffer
C38_HeaderBits ==
    /\ [](\A t \in Procs : Stored(t) =>
              m_data[loc[t].pos].header =
                  4 * loc[t].pos + (IF loc[t].ts THEN 1 ELSE 0))
    /\ [][\A i \in 0..(m_reccnt - 1) : Stays(i) =>
              /\ is_tombstone(m_data'[i].header) = is_tombstone(m_data[i].header)
              /\ is_deleted(m_data[i].header) => is_deleted(m_data'[i].header)]_vars

(***************************************************************************)
(* SpecTruncate: threads that append to one buffer and truncate it         *)
(* concurrently.  truncate is a sequence of stores.                        *)
(***************************************************************************)
\* truncate() (line 96)
truncate_call(t) ==
    /\ pc[t] = "idle"
    /\ Go(t, "t_tombstonecnt", [IdleLoc EXCEPT !.op = "truncate"])
    /\ UNCHANGED <<bufvars, devars>>

\* m_tombstonecnt.store(0) (line 97)
truncate_tombstonecnt(t) ==
    /\ pc[t] = "t_tombstonecnt"
    /\ m_tombstonecnt' = 0
    /\ loc' = Disturb(t, loc)
    /\ pc' = [pc EXCEPT ![t] = "t_reccnt"]
    /\ UNCHANGED <<m_tail, m_reccnt, m_data, m_refcnt, devars>>

\* m_reccnt.store(0) (line 98)
truncate_reccnt(t) ==
    /\ pc[t] = "t_reccnt"
    /\ m_reccnt' = 0
    /\ loc' = Disturb(t, loc)
    /\ pc' = [pc EXCEPT ![t] = "t_tail"]
    /\ UNCHANGED <<m_tail, m_tombstonecnt, m_data, m_refcnt, devars>>

\* m_tail.store(0); return true (lines 101-104)
truncate_tail(t) ==
    /\ pc[t] = "t_tail"
    /\ m_tail' = 0
    /\ m_data' = truncate(m_data)
    /\ loc' = Disturb(t, [loc EXCEPT ![t].ret = 1])
    /\ pc' = [pc EXCEPT ![t] = "done"]
    /\ UNCHANGED <<m_reccnt, m_tombstonecnt, m_refcnt, devars>>

NextTruncate ==
    \E t \in Threads :
        \/ \E ts \in BOOLEAN : append_call(t, RecOf(t), ts)
        \/ try_advance_tail(t)
        \/ undo_advance_tail(t)
        \/ write_slot(t)
        \/ write_header(t)
        \/ count_tombstone(t)
        \/ publish(t)
        \/ append_return(t)
        \/ truncate_call(t)
        \/ truncate_tombstonecnt(t)
        \/ truncate_reccnt(t)
        \/ truncate_tail(t)
        \/ buffer_return(t)

SpecTruncate == InitAppend /\ [][NextTruncate]_vars

\* C39: with accepted appends, rejected appends and truncate calls running
\* concurrently the tail of the buffer stays within [0, capacity]: once a
\* rejected append has taken back its increment the tail is neither above
\* the capacity nor below zero, and an append that finds the tail below the
\* capacity (as it is after a truncate) is accepted
C39_TailWithinCapacity ==
    /\ (\A t \in Threads : pc[t] # "undo") => (m_tail >= 0 /\ m_tail <= m_cap)
    /\ \A t \in Threads :
           (pc[t] = "done" /\ loc[t].op = "append" /\ loc[t].alone
               /\ loc[t].expect) => loc[t].ret = 1

\* C40: with any number of threads appending tombstones concurrently the
\* tombstone count of the buffer never exceeds its tombstone capacity and
\* its record count never exceeds its capacity
C40_CountsWithinCapacity ==
    /\ m_tombstonecnt <= m_tombstone_cap
    /\ m_reccnt <= m_cap

C40_Witness ==
    \E t \in Threads, u \in Threads :
        /\ t # u
        /\ \A v \in {t, u} :
               /\ pc[v] = "done" /\ loc[v].op = "append" /\ loc[v].ts
               /\ loc[v].ret = 1 /\ ~loc[v].alone
        /\ m_tombstonecnt = m_tombstone_cap
        /\ m_reccnt = m_cap
====
